---- MODULE Spec2Model ----
(***************************************************************************)
(* A model of the shape system of go-raml: the array, object, union, JSON, *)
(* unknown and recursive shapes of complex.go, their validate, inherit,    *)
(* clone and check methods, over a heap of shapes addressed by pointer.    *)
(*                                                                         *)
(* Pointers.  A *BaseShape is the index of the shape in the sequence       *)
(* `shapes` (0 is nil); an *orderedmap.OrderedMap is the index of the map  *)
(* in the sequence `maps` (0 is nil).  A pointer to a number, a bool or a  *)
(* string is the empty tuple when nil and a one-element tuple holding the  *)
(* value otherwise.                                                        *)
(*                                                                         *)
(* Errors.  An error is modelled by the text of its own (outermost)        *)
(* message, without the formatted arguments and without the wrapped cause. *)
(***************************************************************************)
EXTENDS Integers, Sequences, FiniteSets, TLC

(***************************************************************************)
(* Runtime values: null | bool | int | float | string | list | map.        *)
(***************************************************************************)
VNull == [k |-> "null"]
VBool(b) == [k |-> "bool", b |-> b]
VInt(i) == [k |-> "int", i |-> i]
VStr(s) == [k |-> "str", s |-> s]
VList(l) == [k |-> "list", l |-> l]
VMap(m) == [k |-> "map", m |-> m]

NoShape == 0
NoMap == 0
Nil == <<>>
Ptr(x) == <<x>>
Deref(p) == p[1]

(***************************************************************************)
(* A shape: the BaseShape envelope (ID, Name, Type) and the facets of its  *)
(* variant body.  Every record carries every field; the fields of other    *)
(* variants keep their zero value.                                         *)
(***************************************************************************)
BaseShape(id, name, type) ==
  [ID |-> id, Name |-> name, Type |-> type,
   Items |-> NoShape, MinItems |-> Nil, MaxItems |-> Nil, UniqueItems |-> Nil,
   Discriminator |-> Nil, DiscriminatorValue |-> Nil, AdditionalProperties |-> Nil,
   Properties |-> NoMap, PatternProperties |-> NoMap,
   MinProperties |-> Nil, MaxProperties |-> Nil,
   AnyOf |-> <<>>, Raw |-> "", Schema |-> "", Head |-> NoShape,
   Required |-> Nil, Inherits |-> <<>>]

TypeArray == "array"
TypeObject == "object"
TypeUnion == "union"
TypeJSON == "json"
TypeUnknown == "unknown"
TypeRecursive == "recursive"
TypeString == "string"
TypeInteger == "integer"
TypeNil == "nil"
ScalarTypes == {TypeString, TypeInteger, TypeNil}

\* An entry of an ordered map: Property {Name, Shape, Required}; a
\* PatternProperty is the same record with Pattern the compiled expression
\* (a literal, as the sequence of its characters) and Required FALSE.
Property(name, shape, required) ==
  [Name |-> name, Shape |-> shape, Required |-> required, Pattern |-> <<>>]
PatternProperty(raw, pattern, shape) ==
  [Name |-> raw, Shape |-> shape, Required |-> FALSE, Pattern |-> pattern]

\* orderedmap: Get, Set (a new key is appended, an old key keeps its place).
MapHas(m, key) == \E j \in 1..Len(m) : m[j].Name = key
MapGet(m, key) == m[CHOOSE j \in 1..Len(m) : m[j].Name = key]
MapSet(m, key, e) ==
  IF MapHas(m, key) THEN [j \in 1..Len(m) |-> IF m[j].Name = key THEN e ELSE m[j]]
  ELSE Append(m, e)

(***************************************************************************)
(* regexp.MatchString for a literal pattern: the pattern occurs somewhere  *)
(* in the key.  Keys are strings; KeyChars gives their characters.         *)
(***************************************************************************)
KeyChars(key) ==
  CASE key = "name" -> <<"n", "a", "m", "e">>
    [] key = "age" -> <<"a", "g", "e">>
    [] key = "kind" -> <<"k", "i", "n", "d">>
    [] key = "next" -> <<"n", "e", "x", "t">>
    [] key = "extra" -> <<"e", "x", "t", "r", "a">>
    [] key = "x1" -> <<"x", "1">>
    [] OTHER -> <<>>

MatchString(pattern, key) ==
  LET cs == KeyChars(key) IN
  \E i \in 1..(Len(cs) + 1) :
    /\ i + Len(pattern) - 1 <= Len(cs)
    /\ SubSeq(cs, i, i + Len(pattern) - 1) = pattern

(***************************************************************************)
(* validate.  The result is the set of outcomes the call can have: "ok",   *)
(* an error, or the end of the process: "overflow" (a call chain that      *)
(* re-enters validate on the same shape with the same value never ends,    *)
(* and the Go runtime stops the process when the stack is exhausted) or    *)
(* "panic" (a list or a map used as a map key).  More than one outcome is  *)
(* possible only because Go ranges over a map in an unspecified order.     *)
(* `visiting` holds the calls (shape, value) still open above this one.    *)
(***************************************************************************)
Ok == "ok"
Overflow == "overflow"
Panic == "panic"
Abort == {Overflow, Panic}
IsErr(r) == r \notin ({Ok} \cup Abort)
HasErr(O) == \E r \in O : IsErr(r)
\* `if err := f(); err != nil { return wrap }` followed by `rest`.
Wrapped(O, wrap, rest) ==
  (IF HasErr(O) THEN {wrap} ELSE {}) \cup (O \cap Abort) \cup (IF Ok \in O THEN rest ELSE {})

RECURSIVE validate(_, _, _, _, _)

\* A Go map key must be hashable: a slice or a map panics at run time.
Unhashable(v) == v.k \in {"list", "map"}

RECURSIVE ArrayShape_validateItems(_, _, _, _, _, _)
ArrayShape_validateItems(S, M, s, i, ii, visiting) ==
  LET validateUniqueItems == s.UniqueItems # Nil /\ Deref(s.UniqueItems)
      uniqueItems == {i[j] : j \in 1..Len(i)}
  IN
  IF ii > Len(i)
  THEN IF validateUniqueItems /\ Cardinality(uniqueItems) # Len(i)
       THEN {"array contains duplicate items"} ELSE {Ok}
  ELSE LET O == IF s.Items # NoShape
                THEN validate(S, M, s.Items, i[ii], visiting) ELSE {Ok}
       IN Wrapped(O, "validate array item",
                  IF validateUniqueItems /\ Unhashable(i[ii])
                  THEN {Panic}
                  ELSE ArrayShape_validateItems(S, M, s, i, ii + 1, visiting))

ArrayShape_validate(S, M, s, v, visiting) ==
  IF v.k # "list" THEN {"invalid type, expected []interface{}"}
  ELSE LET arrayLen == Len(v.l) IN
    IF s.MinItems # Nil /\ arrayLen < Deref(s.MinItems) THEN {"array must have at least"}
    ELSE IF s.MaxItems # Nil /\ arrayLen > Deref(s.MaxItems) THEN {"array must have not more than"}
    ELSE ArrayShape_validateItems(S, M, s, v.l, 1, visiting)

\* The loop over the pattern properties for one key: the outcomes, with
\* "found" for a pattern that matched and validated and "none" for a loop
\* that ended without one.
RECURSIVE PatternLoop(_, _, _, _, _, _, _)
PatternLoop(S, M, pps, j, key, item, visiting) ==
  IF j > Len(pps) THEN {"none"}
  ELSE IF MatchString(pps[j].Pattern, key)
       THEN LET O == validate(S, M, pps[j].Shape, item, visiting) IN
            (IF Ok \in O THEN {"found"} ELSE {})
            \cup (O \cap Abort)
            \cup (IF HasErr(O) THEN PatternLoop(S, M, pps, j + 1, key, item, visiting) ELSE {})
       ELSE PatternLoop(S, M, pps, j + 1, key, item, visiting)

\* A validateProperties that tries the pattern properties for every key,
\* a property of the shape or not.
ObjectShape_validatePropertyPatternsFirst(S, M, s, key, item, visiting) ==
  LET restrictedAdditionalProperties ==
        s.AdditionalProperties # Nil /\ ~Deref(s.AdditionalProperties)
      additional == IF restrictedAdditionalProperties THEN {"unexpected additional property"} ELSE {Ok}
  IN
  IF s.PatternProperties # NoMap
  THEN LET P == PatternLoop(S, M, M[s.PatternProperties], 1, key, item, visiting) IN
       (IF "found" \in P THEN {Ok} ELSE {})
       \cup (P \cap Abort)
       \cup (IF "none" \in P THEN additional ELSE {})
  ELSE additional

\* A loop body in which a key that matches a pattern property has to
\* validate against one of the pattern properties it matches.
ObjectShape_validatePropertyPatternsBinding(S, M, s, key, item, visiting) ==
  LET restrictedAdditionalProperties ==
        s.AdditionalProperties # Nil /\ ~Deref(s.AdditionalProperties)
      additional == IF restrictedAdditionalProperties THEN {"unexpected additional property"} ELSE {Ok}
  IN
  IF s.Properties # NoMap /\ MapHas(M[s.Properties], key)
  THEN Wrapped(validate(S, M, MapGet(M[s.Properties], key).Shape, item, visiting),
               "validate property", {Ok})
  ELSE IF s.PatternProperties # NoMap
       THEN LET P == PatternLoop(S, M, M[s.PatternProperties], 1, key, item, visiting) IN
            (IF "found" \in P THEN {Ok} ELSE {})
            \cup (P \cap Abort)
            \cup (IF "none" \in P
                  THEN IF \E j \in 1..Len(M[s.PatternProperties]) :
                            MatchString(M[s.PatternProperties][j].Pattern, key)
                       THEN {"validate pattern property"}
                       ELSE additional
                  ELSE {})
       ELSE additional

\* One pass of the loop body of validateProperties, for the key `key`.
ObjectShape_validateProperty(S, M, s, key, item, visiting) ==
  LET restrictedAdditionalProperties ==
        s.AdditionalProperties # Nil /\ ~Deref(s.AdditionalProperties)
      additional == IF restrictedAdditionalProperties THEN {"unexpected additional property"} ELSE {Ok}
  IN
  IF s.Properties # NoMap /\ MapHas(M[s.Properties], key)
  THEN Wrapped(validate(S, M, MapGet(M[s.Properties], key).Shape, item, visiting),
               "validate property", {Ok})
  ELSE IF s.PatternProperties # NoMap
       THEN LET P == PatternLoop(S, M, M[s.PatternProperties], 1, key, item, visiting) IN
            (IF "found" \in P THEN {Ok} ELSE {})
            \cup (P \cap Abort)
            \cup (IF "none" \in P THEN additional ELSE {})
       ELSE additional

\* `for k, item := range props` visits the keys in any order and returns at
\* the first key that fails.
ObjectShape_validateProperties(S, M, s, props, visiting) ==
  LET O(key) == ObjectShape_validateProperty(S, M, s, key, props[key], visiting) IN
  {r \in UNION {O(key) : key \in DOMAIN props} : r # Ok}
  \cup (IF \A key \in DOMAIN props : Ok \in O(key) THEN {Ok} ELSE {})

ObjectShape_validate(S, M, s, v, visiting) ==
  IF v.k # "map" THEN {"invalid type, expected map[string]interface{}"}
  ELSE LET mapLen == Cardinality(DOMAIN v.m) IN
    Wrapped(ObjectShape_validateProperties(S, M, s, v.m, visiting), "validate properties",
            IF s.MinProperties # Nil /\ mapLen < Deref(s.MinProperties)
            THEN {"object must have at least"}
            ELSE IF s.MaxProperties # Nil /\ mapLen > Deref(s.MaxProperties)
                 THEN {"object must have not more than"}
                 ELSE {Ok})

RECURSIVE UnionShape_validateMembers(_, _, _, _, _, _)
UnionShape_validateMembers(S, M, s, n, v, visiting) ==
  IF n > Len(s.AnyOf) THEN {"value does not match any type"}
  ELSE LET O == validate(S, M, s.AnyOf[n], v, visiting) IN
       (IF Ok \in O THEN {Ok} ELSE {})
       \cup (O \cap Abort)
       \cup (IF HasErr(O) THEN UnionShape_validateMembers(S, M, s, n + 1, v, visiting) ELSE {})

UnionShape_validate(S, M, s, v, visiting) ==
  UnionShape_validateMembers(S, M, s, 1, v, visiting)

JSONShape_validate(S, M, s, v, visiting) == {Ok}

UnknownShape_validate(S, M, s, v, visiting) == {"cannot validate against unknown shape"}

RecursiveShape_validate(S, M, s, v, visiting) ==
  Wrapped(validate(S, M, s.Head, v, visiting), "validate recursive shape", {Ok})

\* The scalar shapes (string, integer, nil) accept the values of their kind.
ScalarShape_validate(S, M, s, v, visiting) ==
  IF \/ s.Type = TypeString /\ v.k = "str"
     \/ s.Type = TypeInteger /\ v.k = "int"
     \/ s.Type = TypeNil /\ v.k = "null"
  THEN {Ok} ELSE {"invalid type"}

\* Shape.validate: the dynamic dispatch on the variant.
validate(S, M, p, v, visiting) ==
  IF <<p, v>> \in visiting THEN {Overflow}
  ELSE LET s == S[p]
           open == visiting \cup {<<p, v>>}
       IN CASE s.Type = TypeArray -> ArrayShape_validate(S, M, s, v, open)
            [] s.Type = TypeObject -> ObjectShape_validate(S, M, s, v, open)
            [] s.Type = TypeUnion -> UnionShape_validate(S, M, s, v, open)
            [] s.Type = TypeJSON -> JSONShape_validate(S, M, s, v, open)
            [] s.Type = TypeUnknown -> UnknownShape_validate(S, M, s, v, open)
            [] s.Type = TypeRecursive -> RecursiveShape_validate(S, M, s, v, open)
            [] OTHER -> ScalarShape_validate(S, M, s, v, open)

\* BaseShape.Validate(v): validation from the root.
BaseShape_Validate(S, M, p, v) == validate(S, M, p, v, {})

(***************************************************************************)
(* The heap: H.S the shapes, H.M the ordered maps.  An operation that      *)
(* writes returns the heap it leaves, with ok and err for `return x, nil`  *)
(* and `return nil, err`; what it wrote before failing stays written.      *)
(***************************************************************************)
Heap(S, M) == [S |-> S, M |-> M]
Done(H) == [S |-> H.S, M |-> H.M, ok |-> TRUE, err |-> ""]
Fail(H, e) == [S |-> H.S, M |-> H.M, ok |-> FALSE, err |-> e]
SetShape(H, p, s) == Heap([H.S EXCEPT ![p] = s], H.M)
SetMap(H, m, entries) == Heap(H.S, [H.M EXCEPT ![m] = entries])

\* generateShapeID: the next value of the process-wide counter of shape IDs.
RECURSIVE MaxID(_, _)
MaxID(S, n) ==
  IF n = 0 THEN 0
  ELSE LET m == MaxID(S, n - 1) IN IF S[n].ID > m THEN S[n].ID ELSE m
generateShapeID(S) == MaxID(S, Len(S)) + 1

(***************************************************************************)
(* clone.  BaseShape.clone(clonedMap) copies the envelope, records the     *)
(* copy under the original's ID and lets the variant clone what it owns;   *)
(* a shape already in clonedMap is answered with its copy.  The result is  *)
(* the heap, the memo and the pointer to the copy.                         *)
(***************************************************************************)
Cloned(H, memo, p) == [S |-> H.S, M |-> H.M, memo |-> memo, p |-> p]

RECURSIVE BaseShape_clone(_, _, _)

\* The entries of an ordered map, the shape of each cloned (entries from j
\* on); c carries the heap and the memo, c.p the last clone made.
RECURSIVE cloneProperties(_, _, _, _)
cloneProperties(c, entries, j, acc) ==
  IF j > Len(entries) THEN [S |-> c.S, M |-> c.M, memo |-> c.memo, entries |-> acc]
  ELSE LET prop == BaseShape_clone(c, c.memo, entries[j].Shape)
       IN cloneProperties(prop, entries, j + 1,
                          Append(acc, [entries[j] EXCEPT !.Shape = prop.p]))

\* c.Items = c.Items.clone(clonedMap)
ArrayShape_setItems(c, base) ==
  Cloned(SetShape(c, base, [c.S[base] EXCEPT !.Items = c.p]), c.memo, base)

ArrayShape_clone(H, memo, base) ==
  IF H.S[base].Items # NoShape
  THEN ArrayShape_setItems(BaseShape_clone(H, memo, H.S[base].Items), base)
  ELSE Cloned(H, memo, base)

\* c.Properties = orderedmap.New(); c.Properties.Set(k, prop) for every entry
ObjectShape_setProperties(c, base) ==
  Cloned(Heap([c.S EXCEPT ![base].Properties = Len(c.M) + 1], Append(c.M, c.entries)),
         c.memo, base)
ObjectShape_setPatternProperties(c, base) ==
  Cloned(Heap([c.S EXCEPT ![base].PatternProperties = Len(c.M) + 1], Append(c.M, c.entries)),
         c.memo, base)

ObjectShape_clonePatternProperties(c, base) ==
  IF c.S[base].PatternProperties # NoMap
  THEN ObjectShape_setPatternProperties(
         cloneProperties(c, c.M[c.S[base].PatternProperties], 1, <<>>), base)
  ELSE c

ObjectShape_clone(H, memo, base) ==
  ObjectShape_clonePatternProperties(
    IF H.S[base].Properties # NoMap
    THEN ObjectShape_setProperties(
           cloneProperties(Cloned(H, memo, base), H.M[H.S[base].Properties], 1, <<>>), base)
    ELSE Cloned(H, memo, base),
    base)

RECURSIVE cloneMembers(_, _, _, _)
cloneMembers(c, members, i, acc) ==
  IF i > Len(members) THEN [S |-> c.S, M |-> c.M, memo |-> c.memo, members |-> acc]
  ELSE LET member == BaseShape_clone(c, c.memo, members[i])
       IN cloneMembers(member, members, i + 1, Append(acc, member.p))

UnionShape_setAnyOf(c, base) ==
  Cloned(Heap([c.S EXCEPT ![base].AnyOf = c.members], c.M), c.memo, base)

UnionShape_clone(H, memo, base) ==
  UnionShape_setAnyOf(cloneMembers(Cloned(H, memo, base), H.S[base].AnyOf, 1, <<>>), base)

\* JSONShape.clone, UnknownShape.clone, RecursiveShape.clone: `c := *s`.
\* The copy of a recursive shape keeps the Head of the original.
PlainShape_clone(H, memo, base) == Cloned(H, memo, base)

\* Shape.clone(base, clonedMap): the dynamic dispatch on the variant.
clone(H, memo, base) ==
  CASE H.S[base].Type = TypeArray -> ArrayShape_clone(H, memo, base)
    [] H.S[base].Type = TypeObject -> ObjectShape_clone(H, memo, base)
    [] H.S[base].Type = TypeUnion -> UnionShape_clone(H, memo, base)
    [] OTHER -> PlainShape_clone(H, memo, base)

BaseShape_clone(H, memo, p) ==
  IF H.S[p].ID \in DOMAIN memo THEN Cloned(H, memo, memo[H.S[p].ID])
  ELSE clone(Heap(Append(H.S, H.S[p]), H.M), (H.S[p].ID :> (Len(H.S) + 1)) @@ memo,
             Len(H.S) + 1)

BaseShape_CloneDetached(H, p) == BaseShape_clone(H, <<>>, p)

(***************************************************************************)
(* inherit.  target.inherit(source): t and src are the pointers.           *)
(***************************************************************************)
RECURSIVE BaseShape_Inherit(_, _, _)

\* The comparisons of the bounds, target against source.
MinViolationBelow(target, source) == target < source
MinViolation(target, source) == target > source
MaxViolation(target, source) == target < source
UniqueViolation(target, source) == source /\ ~target

ArrayShape_inheritItems(H, t, src) ==
  IF H.S[t].Items = NoShape
  THEN Done(SetShape(H, t, [H.S[t] EXCEPT !.Items = H.S[src].Items]))
  ELSE IF H.S[src].Items # NoShape
       THEN LET r == BaseShape_Inherit(H, H.S[t].Items, H.S[src].Items)
            IN IF r.ok THEN r ELSE Fail(r, "merge array items")
       ELSE Done(H)

ArrayShape_inheritMinItems(H, t, src) ==
  IF H.S[t].MinItems = Nil
  THEN Done(SetShape(H, t, [H.S[t] EXCEPT !.MinItems = H.S[src].MinItems]))
  ELSE IF H.S[src].MinItems # Nil
          /\ MinViolation(Deref(H.S[t].MinItems), Deref(H.S[src].MinItems))
       THEN Fail(H, "minItems constraint violation")
       ELSE Done(H)

ArrayShape_inheritMaxItems(H, t, src) ==
  IF H.S[t].MaxItems = Nil
  THEN Done(SetShape(H, t, [H.S[t] EXCEPT !.MaxItems = H.S[src].MaxItems]))
  ELSE IF H.S[src].MaxItems # Nil
          /\ MaxViolation(Deref(H.S[t].MaxItems), Deref(H.S[src].MaxItems))
       THEN Fail(H, "maxItems constraint violation")
       ELSE Done(H)

ArrayShape_inheritUniqueItems(H, t, src) ==
  IF H.S[t].UniqueItems = Nil
  THEN Done(SetShape(H, t, [H.S[t] EXCEPT !.UniqueItems = H.S[src].UniqueItems]))
  ELSE IF H.S[src].UniqueItems # Nil
          /\ UniqueViolation(Deref(H.S[t].UniqueItems), Deref(H.S[src].UniqueItems))
       THEN Fail(H, "uniqueItems constraint violation")
       ELSE Done(H)

\* `ss, ok := source.(*ArrayShape)`: src is the source as it was passed.
ArrayShape_inherit(H, t, src) ==
  LET r1 == ArrayShape_inheritItems(H, t, src)
      r2 == ArrayShape_inheritMinItems(r1, t, src)
      r3 == ArrayShape_inheritMaxItems(r2, t, src)
      r4 == ArrayShape_inheritUniqueItems(r3, t, src)
  IN IF H.S[src].Type # TypeArray THEN Fail(H, "cannot inherit from different type")
     ELSE IF ~r1.ok THEN r1
     ELSE IF ~r2.ok THEN r2
     ELSE IF ~r3.ok THEN r3
     ELSE r4

ObjectShape_inheritMinProperties(H, t, src) ==
  IF H.S[t].MinProperties = Nil
  THEN Done(SetShape(H, t, [H.S[t] EXCEPT !.MinProperties = H.S[src].MinProperties]))
  ELSE IF H.S[src].MinProperties # Nil
          /\ MinViolation(Deref(H.S[t].MinProperties), Deref(H.S[src].MinProperties))
       THEN Fail(H, "minProperties constraint violation")
       ELSE Done(H)

ObjectShape_inheritMaxProperties(H, t, src) ==
  IF H.S[t].MaxProperties = Nil
  THEN Done(SetShape(H, t, [H.S[t] EXCEPT !.MaxProperties = H.S[src].MaxProperties]))
  ELSE IF H.S[src].MaxProperties # Nil
          /\ MaxViolation(Deref(H.S[t].MaxProperties), Deref(H.S[src].MaxProperties))
       THEN Fail(H, "maxProperties constraint violation")
       ELSE Done(H)

\* The loop of inheritProperties over the source's entries, from entry j.
\* The maps are read from the heap at every pass: the target's map may be
\* the source's.
RECURSIVE ObjectShape_inheritPropertiesFrom(_, _, _, _)
\* The pass of the loop without the test of Required.
ObjectShape_inheritPropertyUnguarded(H, t, src, j, sourceProp, tm) ==
  IF MapHas(tm, sourceProp.Name)
  THEN LET r == BaseShape_Inherit(H, MapGet(tm, sourceProp.Name).Shape, sourceProp.Shape)
       IN IF r.ok THEN ObjectShape_inheritPropertiesFrom(r, t, src, j + 1)
          ELSE Fail(r, "inherit property")
  ELSE ObjectShape_inheritPropertiesFrom(
         SetMap(H, H.S[t].Properties, MapSet(tm, sourceProp.Name, sourceProp)), t, src, j + 1)

ObjectShape_inheritProperty(H, t, src, j, sourceProp, tm) ==
  IF MapHas(tm, sourceProp.Name)
  THEN IF sourceProp.Required /\ ~MapGet(tm, sourceProp.Name).Required
       THEN Fail(H, "cannot make required property optional")
       ELSE LET r == BaseShape_Inherit(H, MapGet(tm, sourceProp.Name).Shape, sourceProp.Shape)
            IN IF r.ok THEN ObjectShape_inheritPropertiesFrom(r, t, src, j + 1)
               ELSE Fail(r, "inherit property")
  ELSE ObjectShape_inheritPropertiesFrom(
         SetMap(H, H.S[t].Properties, MapSet(tm, sourceProp.Name, sourceProp)), t, src, j + 1)

ObjectShape_inheritPropertiesFrom(H, t, src, j) ==
  IF j > Len(H.M[H.S[src].Properties]) THEN Done(H)
  ELSE ObjectShape_inheritProperty(H, t, src, j, H.M[H.S[src].Properties][j],
                                   H.M[H.S[t].Properties])

ObjectShape_inheritProperties(H, t, src) ==
  IF H.S[t].Properties = NoMap
  THEN Done(SetShape(H, t, [H.S[t] EXCEPT !.Properties = H.S[src].Properties]))
  ELSE IF H.S[src].Properties = NoMap THEN Done(H)
       ELSE ObjectShape_inheritPropertiesFrom(H, t, src, 1)

RECURSIVE ObjectShape_inheritPatternPropertiesFrom(_, _, _, _)
ObjectShape_inheritPatternProperty(H, t, src, j, sourceProp, tm) ==
  IF MapHas(tm, sourceProp.Name)
  THEN LET r == BaseShape_Inherit(H, MapGet(tm, sourceProp.Name).Shape, sourceProp.Shape)
       IN IF r.ok THEN ObjectShape_inheritPatternPropertiesFrom(r, t, src, j + 1)
          ELSE Fail(r, "inherit pattern property")
  ELSE ObjectShape_inheritPatternPropertiesFrom(
         SetMap(H, H.S[t].PatternProperties, MapSet(tm, sourceProp.Name, sourceProp)),
         t, src, j + 1)

ObjectShape_inheritPatternPropertiesFrom(H, t, src, j) ==
  IF j > Len(H.M[H.S[src].PatternProperties]) THEN Done(H)
  ELSE ObjectShape_inheritPatternProperty(H, t, src, j, H.M[H.S[src].PatternProperties][j],
                                          H.M[H.S[t].PatternProperties])

ObjectShape_inheritPatternProperties(H, t, src) ==
  IF H.S[t].PatternProperties = NoMap
  THEN Done(SetShape(H, t, [H.S[t] EXCEPT !.PatternProperties = H.S[src].PatternProperties]))
  ELSE IF H.S[src].PatternProperties = NoMap THEN Done(H)
       ELSE ObjectShape_inheritPatternPropertiesFrom(H, t, src, 1)

\* The source as ObjectShape.inherit matches it:
\* `if ss, ok := source.(*RecursiveShape); ok { source = ss.Head.Shape }`
ObjectShape_source(H, source) ==
  IF H.S[source].Type = TypeRecursive THEN H.S[source].Head ELSE source

\* Discriminator and AdditionalProperties are inherited as is.
ObjectShape_inheritAsIs(H, t, src) ==
  SetShape(H, t,
    [H.S[t] EXCEPT
       !.AdditionalProperties = IF @ = Nil THEN H.S[src].AdditionalProperties ELSE @,
       !.Discriminator = IF @ = Nil THEN H.S[src].Discriminator ELSE @])

ObjectShape_inherit(H, t, source) ==
  LET src == ObjectShape_source(H, source)
      r1 == ObjectShape_inheritMinProperties(ObjectShape_inheritAsIs(H, t, src), t, src)
      r2 == ObjectShape_inheritMaxProperties(r1, t, src)
      r3 == ObjectShape_inheritProperties(r2, t, src)
      r4 == ObjectShape_inheritPatternProperties(r3, t, src)
  IN IF H.S[src].Type # TypeObject THEN Fail(H, "cannot inherit from different type")
     ELSE IF ~r1.ok THEN Fail(r1, "inherit minProperties")
     ELSE IF ~r2.ok THEN Fail(r2, "inherit maxProperties")
     ELSE IF ~r3.ok THEN Fail(r3, "inherit properties")
     ELSE IF ~r4.ok THEN Fail(r4, "inherit pattern properties")
     ELSE r4

\* The inner loop of UnionShape.inherit: the clones of the target's members
\* (from member n on) of the type of sourceMember that inherit from it.
RECURSIVE UnionShape_filter(_, _, _, _, _)

\* The inner loop keeping the clones whose inherit has failed.
UnionShape_filteredKeepsFailed(r, cs, t, sourceMember, n, filtered) ==
  UnionShape_filter(r, t, sourceMember, n + 1, Append(filtered, cs))

\* `ms, err := cs.Inherit(sourceMember); if err != nil { continue }`
UnionShape_filtered(r, cs, t, sourceMember, n, filtered) ==
  UnionShape_filter(r, t, sourceMember, n + 1,
                    IF r.ok THEN Append(filtered, cs) ELSE filtered)

\* `cs := targetMember.CloneDetached(); cs.ID = generateShapeID()`
UnionShape_cloneMember(c, t, sourceMember, n, filtered) ==
  UnionShape_filtered(
    BaseShape_Inherit(Heap([c.S EXCEPT ![c.p].ID = generateShapeID(c.S)], c.M),
                      c.p, sourceMember),
    c.p, t, sourceMember, n, filtered)

\* The inner loop merging the source member into the target's own member.
UnionShape_filterInPlace(H, t, sourceMember, n, filtered) ==
  IF n > Len(H.S[t].AnyOf) THEN [S |-> H.S, M |-> H.M, filtered |-> filtered]
  ELSE IF H.S[sourceMember].Type = H.S[H.S[t].AnyOf[n]].Type
       THEN UnionShape_cloneMember(Cloned(H, <<>>, H.S[t].AnyOf[n]),
                                   t, sourceMember, n, filtered)
       ELSE UnionShape_filter(H, t, sourceMember, n + 1, filtered)

UnionShape_filter(H, t, sourceMember, n, filtered) ==
  IF n > Len(H.S[t].AnyOf) THEN [S |-> H.S, M |-> H.M, filtered |-> filtered]
  ELSE IF H.S[sourceMember].Type = H.S[H.S[t].AnyOf[n]].Type
       THEN UnionShape_cloneMember(BaseShape_CloneDetached(H, H.S[t].AnyOf[n]),
                                   t, sourceMember, n, filtered)
       ELSE UnionShape_filter(H, t, sourceMember, n + 1, filtered)

\* The outer loop, over the source's members from member i on.
RECURSIVE UnionShape_inheritMembers(_, _, _, _, _)
UnionShape_inheritMember(f, t, src, i, finalFiltered) ==
  IF Len(f.filtered) = 0 THEN Fail(f, "failed to find compatible union member")
  ELSE UnionShape_inheritMembers(f, t, src, i + 1, finalFiltered \o f.filtered)

UnionShape_inheritMembers(H, t, src, i, finalFiltered) ==
  IF i > Len(H.S[src].AnyOf)
  THEN Done(SetShape(H, t, [H.S[t] EXCEPT !.AnyOf = finalFiltered]))
  ELSE UnionShape_inheritMember(UnionShape_filter(H, t, H.S[src].AnyOf[i], 1, <<>>),
                                t, src, i, finalFiltered)

\* `ss, ok := source.(*UnionShape)`: src is the source as it was passed.
UnionShape_inherit(H, t, src) ==
  IF H.S[src].Type # TypeUnion THEN Fail(H, "cannot inherit from different type")
  ELSE IF Len(H.S[t].AnyOf) = 0
       THEN Done(SetShape(H, t, [H.S[t] EXCEPT !.AnyOf = H.S[src].AnyOf]))
       ELSE UnionShape_inheritMembers(H, t, src, 1, <<>>)

\* `ss, ok := source.(*JSONShape)`: src is the source as it was passed.
JSONShape_inherit(H, t, src) ==
  IF H.S[src].Type # TypeJSON THEN Fail(H, "cannot inherit from different type")
  ELSE IF H.S[t].Raw # "" /\ H.S[src].Raw # "" /\ H.S[t].Raw # H.S[src].Raw
       THEN Fail(H, "cannot inherit from different JSON schema")
       ELSE Done(SetShape(H, t, [H.S[t] EXCEPT !.Schema = H.S[src].Schema,
                                               !.Raw = H.S[src].Raw]))

UnknownShape_inherit(H, t, source) == Fail(H, "cannot inherit from unknown shape")

RecursiveShape_inherit(H, t, source) == Fail(H, "cannot inherit from recursive shape")

\* A scalar shape inherits from a shape of its own variant.
ScalarShape_inherit(H, t, source) ==
  IF H.S[source].Type # H.S[t].Type THEN Fail(H, "cannot inherit from different type") ELSE Done(H)

\* Shape.inherit: the dynamic dispatch on the target's variant.
inherit(H, t, source) ==
  CASE H.S[t].Type = TypeArray -> ArrayShape_inherit(H, t, source)
    [] H.S[t].Type = TypeObject -> ObjectShape_inherit(H, t, source)
    [] H.S[t].Type = TypeUnion -> UnionShape_inherit(H, t, source)
    [] H.S[t].Type = TypeJSON -> JSONShape_inherit(H, t, source)
    [] H.S[t].Type = TypeUnknown -> UnknownShape_inherit(H, t, source)
    [] H.S[t].Type = TypeRecursive -> RecursiveShape_inherit(H, t, source)
    [] OTHER -> ScalarShape_inherit(H, t, source)

\* BaseShape.Inherit(source): the target's body inherits from the source's.
BaseShape_Inherit(H, t, source) == inherit(Heap(H.S, H.M), t, source)

(***************************************************************************)
(* check.  The result is the set of outcomes, as for validate: check       *)
(* validates the discriminator value.                                      *)
(***************************************************************************)

RECURSIVE BaseShape_Check(_, _, _)

\* BaseShape.IsScalar: the shape is of none of the composite variants.
BaseShape_IsScalar(S, p) == S[p].Type \in ScalarTypes

\* `for ... { if err := x.Check(); err != nil { return wrap } }` then `rest`,
\* over the shapes ps from the n-th on.
RECURSIVE CheckEach(_, _, _, _, _, _)
CheckEach(S, M, ps, n, wrap, rest) ==
  IF n > Len(ps) THEN rest
  ELSE Wrapped(BaseShape_Check(S, M, ps[n]), wrap, CheckEach(S, M, ps, n + 1, wrap, rest))

EntryShapes(entries) == [j \in 1..Len(entries) |-> entries[j].Shape]

ArrayShape_check(S, M, s) ==
  IF s.MinItems # Nil /\ s.MaxItems # Nil /\ Deref(s.MinItems) > Deref(s.MaxItems)
  THEN {"minItems must be less than or equal to maxItems"}
  ELSE IF s.Items # NoShape
       THEN Wrapped(BaseShape_Check(S, M, s.Items), "check items", {Ok})
       ELSE {Ok}

\* checkPatternProperties taking an unset additionalProperties for false.
ObjectShape_checkPatternPropertiesUnsetIsFalse(S, M, s) ==
  IF s.PatternProperties = NoMap THEN {Ok}
  ELSE IF s.AdditionalProperties = Nil \/ ~Deref(s.AdditionalProperties)
       THEN {"pattern properties are not allowed with additionalProperties: false"}
       ELSE CheckEach(S, M, EntryShapes(M[s.PatternProperties]), 1,
                      "check pattern property", {Ok})

ObjectShape_checkPatternProperties(S, M, s) ==
  IF s.PatternProperties = NoMap THEN {Ok}
  ELSE IF s.AdditionalProperties # Nil /\ ~Deref(s.AdditionalProperties)
       THEN {"pattern properties are not allowed with additionalProperties: false"}
       ELSE CheckEach(S, M, EntryShapes(M[s.PatternProperties]), 1,
                      "check pattern property", {Ok})

\* The condition under which checkProperties rejects the discriminator
\* property with "discriminator property must be a scalar".
DiscriminatorRejected(S, p) == BaseShape_IsScalar(S, p)

ObjectShape_checkDiscriminator(S, M, s) ==
  IF s.Discriminator = Nil THEN {Ok}
  ELSE IF ~MapHas(M[s.Properties], Deref(s.Discriminator))
       THEN {"discriminator property not found"}
       ELSE LET prop == MapGet(M[s.Properties], Deref(s.Discriminator))
                discriminatorValue == IF s.DiscriminatorValue = Nil
                                      THEN VStr(s.Name)
                                      ELSE Deref(s.DiscriminatorValue)
            IN IF DiscriminatorRejected(S, prop.Shape)
               THEN {"discriminator property must be a scalar"}
               ELSE Wrapped(BaseShape_Validate(S, M, prop.Shape, discriminatorValue),
                            "validate discriminator value", {Ok})

ObjectShape_checkProperties(S, M, s) ==
  IF s.Properties = NoMap THEN {Ok}
  ELSE CheckEach(S, M, EntryShapes(M[s.Properties]), 1, "check property",
                 ObjectShape_checkDiscriminator(S, M, s))

ObjectShape_check(S, M, s) ==
  IF s.MinProperties # Nil /\ s.MaxProperties # Nil
     /\ Deref(s.MinProperties) > Deref(s.MaxProperties)
  THEN {"minProperties must be less than or equal to maxProperties"}
  ELSE Wrapped(ObjectShape_checkPatternProperties(S, M, s), "check pattern properties",
         Wrapped(ObjectShape_checkProperties(S, M, s), "check properties",
           IF s.Discriminator # Nil /\ s.Properties = NoMap
           THEN {"discriminator without properties"}
           ELSE {Ok}))

UnionShape_check(S, M, s) == CheckEach(S, M, s.AnyOf, 1, "check union member", {Ok})

JSONShape_check(S, M, s) == {Ok}

UnknownShape_check(S, M, s) == {"cannot check unknown shape"}

RecursiveShape_check(S, M, s) == {Ok}

ScalarShape_check(S, M, s) == {Ok}

\* Shape.check: the dynamic dispatch on the variant.
check(S, M, p) ==
  LET s == S[p] IN
  CASE s.Type = TypeArray -> ArrayShape_check(S, M, s)
    [] s.Type = TypeObject -> ObjectShape_check(S, M, s)
    [] s.Type = TypeUnion -> UnionShape_check(S, M, s)
    [] s.Type = TypeJSON -> JSONShape_check(S, M, s)
    [] s.Type = TypeUnknown -> UnknownShape_check(S, M, s)
    [] s.Type = TypeRecursive -> RecursiveShape_check(S, M, s)
    [] OTHER -> ScalarShape_check(S, M, s)

\* BaseShape.Check: the check of the body.
BaseShape_Check(S, M, p) == check(S, M, p)

(***************************************************************************)
(* The properties node of an object.  A node name is the sequence of its   *)
(* characters; the body of a property is a type with the `required` facet  *)
(* set to true, set to false or unset.                                     *)
(***************************************************************************)
MaxNameLen == 3

NameChars == {"a", "?", "/"}

NodeNames == UNION {[1..n -> NameChars] : n \in 0..MaxNameLen}

chompImplicitOptional(nodeName) ==
  IF nodeName # <<>> /\ nodeName[Len(nodeName)] = "?"
  THEN <<SubSeq(nodeName, 1, Len(nodeName) - 1), TRUE>>
  ELSE <<nodeName, FALSE>>

\* makeNewShapeYAML: the shape of the body, named after the node; the
\* result is the heap with the shape, the last of its shapes.
makeNewShapeYAML(H, v, name) ==
  Heap(Append(H.S, [BaseShape(generateShapeID(H.S), name, v.type) EXCEPT
                      !.Required = v.required]),
       H.M)

\* makeProperty taking the property name always, also under an explicit
\* `required`.
makePropertyChompedName(H, nodeName, propertyName, v, hasImplicitOptional) ==
  LET made == makeNewShapeYAML(H, v, nodeName)
      shape == Len(made.S)
      shapeRequired == made.S[shape].Required
  IN [S |-> made.S, M |-> made.M, ok |-> TRUE, err |-> "",
      property |-> Property(propertyName, shape,
                            IF shapeRequired = Nil THEN ~hasImplicitOptional
                            ELSE Deref(shapeRequired))]

makeProperty(H, nodeName, propertyName, v, hasImplicitOptional) ==
  LET made == makeNewShapeYAML(H, v, nodeName)
      shape == Len(made.S)
      shapeRequired == made.S[shape].Required
      finalName == IF shapeRequired # Nil /\ hasImplicitOptional THEN nodeName
                   ELSE propertyName
      required == IF shapeRequired = Nil THEN ~hasImplicitOptional
                  ELSE Deref(shapeRequired)
  IN [S |-> made.S, M |-> made.M, ok |-> TRUE, err |-> "",
      property |-> Property(finalName, shape, required)]

\* regexp.Compile of the text between the slashes: a literal of NameChars,
\* where a `?` with nothing before it to repeat is the syntax error.
makePatternProperty(H, nodeName, propertyName, v, hasImplicitOptional) ==
  LET made == makeNewShapeYAML(H, v, nodeName)
      shape == Len(made.S)
      expr == SubSeq(propertyName, 2, Len(propertyName) - 1)
  IN IF made.S[shape].Required # Nil \/ hasImplicitOptional
     THEN Fail(made, "'required' facet is not supported on pattern property")
     ELSE IF expr # <<>> /\ expr[1] = "?" THEN Fail(made, "compile pattern")
     ELSE [S |-> made.S, M |-> made.M, ok |-> TRUE, err |-> "",
           property |-> PatternProperty(propertyName, expr, shape)]

\* ObjectShape.unmarshalProperty with unmarshalPatternProperties: t is the
\* object, v the body under the node.  The ordered map is made, when the
\* shape has none, before the property is.
ObjectShape_unmarshalProperty(H, t, nodeName, v) ==
  LET chomped == chompImplicitOptional(nodeName)
      propertyName == chomped[1]
      hasImplicitOptional == chomped[2]
      isPattern == /\ Len(propertyName) > 1
                   /\ propertyName[1] = "/"
                   /\ propertyName[Len(propertyName)] = "/"
      facet == IF isPattern THEN "PatternProperties" ELSE "Properties"
      made == IF H.S[t][facet] # NoMap THEN H
              ELSE Heap([H.S EXCEPT ![t][facet] = Len(H.M) + 1], Append(H.M, <<>>))
      r == IF isPattern
           THEN makePatternProperty(made, nodeName, propertyName, v, hasImplicitOptional)
           ELSE makeProperty(made, nodeName, propertyName, v, hasImplicitOptional)
  IN IF ~r.ok THEN Fail(r, IF isPattern THEN "make pattern property" ELSE "make property")
     ELSE Done(SetMap(r, r.S[t][facet],
                      MapSet(r.M[r.S[t][facet]], r.property.Name, r.property)))

(***************************************************************************)
(* The visitor of type expressions, at a reference.  The fragment of the   *)
(* target is a library: Types names its types, Uses the libraries it uses. *)
(* The text of the reference is the sequence of its dot-separated parts.   *)
(***************************************************************************)
Library(types, uses) == [Types |-> types, Uses |-> uses]

\* VisitReference placing the reference before the entries of the target.
RdtVisitor_VisitReferencePrepending(H, frag, parts, target) ==
  LET ref == IF Len(parts) = 1 THEN frag.Types[parts[1]]
             ELSE frag.Uses[parts[1]].Types[parts[2]]
  IN IF Len(parts) = 1 /\ parts[1] \notin DOMAIN frag.Types
     THEN Fail(H, "reference not found")
     ELSE IF Len(parts) = 2 /\ parts[1] \notin DOMAIN frag.Uses
     THEN Fail(H, "library not found")
     ELSE IF Len(parts) = 2 /\ parts[2] \notin DOMAIN frag.Uses[parts[1]].Types
     THEN Fail(H, "reference not found")
     ELSE IF Len(parts) > 2 THEN Fail(H, "invalid reference")
     ELSE Done(Heap(Append(H.S, [H.S[target] EXCEPT
                                   !.Type = H.S[ref].Type,
                                   !.Inherits = <<ref>> \o H.S[target].Inherits]),
                    H.M))

\* The types of the fragment are resolved already: Resolve(ref) returns nil
\* and leaves them as they are.  MakeConcreteShape gives a shape of the
\* type of the reference with a copy of the target's base: the last shape
\* of the heap returned.
RdtVisitor_VisitReference(H, frag, parts, target) ==
  LET ref == IF Len(parts) = 1 THEN frag.Types[parts[1]]
             ELSE frag.Uses[parts[1]].Types[parts[2]]
  IN IF Len(parts) = 1 /\ parts[1] \notin DOMAIN frag.Types
     THEN Fail(H, "reference not found")
     ELSE IF Len(parts) = 2 /\ parts[1] \notin DOMAIN frag.Uses
     THEN Fail(H, "library not found")
     ELSE IF Len(parts) = 2 /\ parts[2] \notin DOMAIN frag.Uses[parts[1]].Types
     THEN Fail(H, "reference not found")
     ELSE IF Len(parts) > 2 THEN Fail(H, "invalid reference")
     ELSE Done(Heap(Append(H.S, [H.S[target] EXCEPT
                                   !.Type = H.S[ref].Type,
                                   !.Inherits = Append(H.S[target].Inherits, ref)]),
                    H.M))

(***************************************************************************)
(* The documents: the shape graphs the operations start from, as parsing   *)
(* and resolving leave them, each with the inheritance edges <<child,      *)
(* parent>> still to be folded, in the order of the child's Inherits.      *)
(***************************************************************************)
Document(S, M, pending) == [S |-> S, M |-> M, pending |-> pending]

Scalar(id, type) == BaseShape(id, "", type)

\* The values a bound facet takes in the documents.
BoundFacets == {Nil, Ptr(3), Ptr(5)}
BoolFacets == {Nil, Ptr(TRUE), Ptr(FALSE)}

\* Parent: string[] with bounds; Child: `type: Parent` with bounds of its own.
ArrayDocument(cmin, cmax, pmin, pmax) ==
  Document(
    << Scalar(1, TypeString),
       [BaseShape(2, "Parent", TypeArray) EXCEPT !.Items = 1, !.MinItems = pmin, !.MaxItems = pmax],
       [BaseShape(3, "Child", TypeArray) EXCEPT !.MinItems = cmin, !.MaxItems = cmax] >>,
    <<>>,
    << <<3, 2>> >>)

\* Parent: an array with uniqueItems and items; Child with uniqueItems and
\* no items, items of the same type, or items of another type.
UniqueDocument(cu, pu, citems, pitems) ==
  Document(
    << Scalar(1, TypeString), Scalar(2, TypeInteger),
       [BaseShape(3, "Parent", TypeArray) EXCEPT !.Items = pitems, !.UniqueItems = pu],
       [BaseShape(4, "Child", TypeArray) EXCEPT !.Items = citems, !.UniqueItems = cu],
       Scalar(5, TypeString) >>,
    <<>>,
    << <<4, 3>> >>)

\* Person: {name: string, age?: integer}; Child: `type: Person`, without
\* properties (1), with name (2), with name? (3) or with extra (4).
ObjectDocument(ca, pa, cv) ==
  Document(
    << Scalar(1, TypeString), Scalar(2, TypeInteger),
       [BaseShape(3, "Person", TypeObject) EXCEPT !.Properties = 1, !.AdditionalProperties = pa],
       [BaseShape(4, "Child", TypeObject) EXCEPT
          !.Properties = IF cv = 1 THEN NoMap ELSE 2, !.AdditionalProperties = ca],
       Scalar(5, TypeString), Scalar(6, TypeInteger) >>,
    << << Property("name", 1, TRUE), Property("age", 2, FALSE) >>,
       CASE cv = 2 -> << Property("name", 5, TRUE) >>
         [] cv = 3 -> << Property("name", 5, FALSE) >>
         [] OTHER -> << Property("extra", 6, TRUE) >> >>,
    << <<4, 3>> >>)

\* Parent and Child objects with minProperties and maxProperties.
PropertyBoundsDocument(cmin, cmax, pmin, pmax) ==
  Document(
    << Scalar(1, TypeString),
       [BaseShape(2, "Parent", TypeObject) EXCEPT
          !.Properties = 1, !.MinProperties = pmin, !.MaxProperties = pmax],
       [BaseShape(3, "Child", TypeObject) EXCEPT
          !.MinProperties = cmin, !.MaxProperties = cmax] >>,
    << << Property("name", 1, FALSE) >> >>,
    << <<3, 2>> >>)

\* An object with the property name and the pattern properties /a/: integer
\* and /x/: string; Child: `type: Parent` with /x/: string and /g/: integer.
PatternDocument(pa) ==
  Document(
    << Scalar(1, TypeString), Scalar(2, TypeInteger),
       [BaseShape(3, "Parent", TypeObject) EXCEPT
          !.Properties = 1, !.PatternProperties = 2, !.AdditionalProperties = pa],
       [BaseShape(4, "Child", TypeObject) EXCEPT !.PatternProperties = 3],
       Scalar(5, TypeString), Scalar(6, TypeInteger) >>,
    << << Property("name", 1, TRUE) >>,
       << PatternProperty("/a/", <<"a">>, 2), PatternProperty("/x/", <<"x">>, 1) >>,
       << PatternProperty("/x/", <<"x">>, 5), PatternProperty("/g/", <<"g">>, 6) >> >>,
    << <<4, 3>> >>)

\* Cat: an object with `discriminator: kind`, a discriminatorValue or none,
\* and the property kind of type string (1), integer (2), string | nil (3),
\* string[] (4), or without the property (5), or without properties (6).
DiscriminatorDocument(kind, dv) ==
  Document(
    << Scalar(1, TypeString), Scalar(2, TypeInteger), Scalar(3, TypeNil),
       [BaseShape(4, "", TypeUnion) EXCEPT !.AnyOf = <<1, 3>>],
       [BaseShape(5, "", TypeArray) EXCEPT !.Items = 1],
       [BaseShape(6, "Cat", TypeObject) EXCEPT
          !.Discriminator = Ptr("kind"), !.DiscriminatorValue = dv,
          !.Properties = IF kind = 6 THEN NoMap ELSE 1] >>,
    << << Property("name", 1, TRUE) >>
       \o (CASE kind = 1 -> << Property("kind", 1, TRUE) >>
             [] kind = 2 -> << Property("kind", 2, TRUE) >>
             [] kind = 3 -> << Property("kind", 4, TRUE) >>
             [] kind = 4 -> << Property("kind", 5, TRUE) >>
             [] OTHER -> << >>) >>,
    << >>)

\* Pet: Cat | Dog, two objects; MaybeString: string | nil; Empty: a union
\* without members; Narrow: string | integer.  Child unions inherit from them.
UnionDocument(edge) ==
  Document(
    << Scalar(1, TypeString), Scalar(2, TypeInteger), Scalar(3, TypeNil),
       [BaseShape(4, "Cat", TypeObject) EXCEPT !.Properties = 1],
       [BaseShape(5, "Dog", TypeObject) EXCEPT !.Properties = 2],
       [BaseShape(6, "Pet", TypeUnion) EXCEPT !.AnyOf = <<4, 5>>],
       [BaseShape(7, "MaybeString", TypeUnion) EXCEPT !.AnyOf = <<1, 3>>],
       [BaseShape(8, "Empty", TypeUnion) EXCEPT !.AnyOf = <<>>],
       [BaseShape(9, "Narrow", TypeUnion) EXCEPT !.AnyOf = <<1, 2>>] >>,
    << << Property("name", 1, TRUE) >>, << Property("age", 2, TRUE) >> >>,
    << edge >>)

\* Cyclic types, each cycle cut by a recursive shape whose Head is the type:
\* Node: {next?: Node} and NodeOrNil: {next?: NodeOrNil | nil} (1);
\* Tree: Tree[] (2); Loop: Loop | string (3) and Loop: string | Loop (4).
RecursiveDocument(v) ==
  CASE v = 1 ->
    Document(
      << [BaseShape(1, "Node", TypeObject) EXCEPT !.Properties = 1],
         [BaseShape(2, "", TypeRecursive) EXCEPT !.Head = 1],
         Scalar(3, TypeNil),
         [BaseShape(4, "", TypeUnion) EXCEPT !.AnyOf = <<6, 3>>],
         [BaseShape(5, "NodeOrNil", TypeObject) EXCEPT !.Properties = 2],
         [BaseShape(6, "", TypeRecursive) EXCEPT !.Head = 5] >>,
      << << Property("next", 2, FALSE) >>, << Property("next", 4, FALSE) >> >>,
      << >>)
    [] v = 2 ->
    Document(
      << [BaseShape(1, "Tree", TypeArray) EXCEPT !.Items = 2],
         [BaseShape(2, "", TypeRecursive) EXCEPT !.Head = 1] >>,
      << >>,
      << >>)
    [] v = 3 ->
    Document(
      << [BaseShape(1, "Loop", TypeUnion) EXCEPT !.AnyOf = <<2, 3>>],
         [BaseShape(2, "", TypeRecursive) EXCEPT !.Head = 1],
         Scalar(3, TypeString) >>,
      << >>,
      << >>)
    [] OTHER ->
    Document(
      << [BaseShape(1, "Loop", TypeUnion) EXCEPT !.AnyOf = <<3, 2>>],
         [BaseShape(2, "", TypeRecursive) EXCEPT !.Head = 1],
         Scalar(3, TypeString) >>,
      << >>,
      << >>)

\* A type that inherits from a recursive shape whose Head is of its variant:
\* an array (1), an object (2), a union (3), a JSON shape (4); and the same
\* types inheriting from the Head itself (5..8).
RecursiveSourceDocument(v) ==
  LET type == CASE v \in {1, 5} -> TypeArray
                [] v \in {2, 6} -> TypeObject
                [] v \in {3, 7} -> TypeUnion
                [] OTHER -> TypeJSON
  IN Document(
       << Scalar(1, TypeString),
          [BaseShape(2, "Head", type) EXCEPT
             !.Items = IF type = TypeArray THEN 1 ELSE NoShape,
             !.MinItems = IF type = TypeArray THEN Ptr(3) ELSE Nil,
             !.Properties = IF type = TypeObject THEN 1 ELSE NoMap,
             !.AnyOf = IF type = TypeUnion THEN <<1>> ELSE <<>>,
             !.Raw = IF type = TypeJSON THEN "{}" ELSE "",
             !.Schema = IF type = TypeJSON THEN "{}" ELSE ""],
          [BaseShape(3, "", TypeRecursive) EXCEPT !.Head = 2],
          BaseShape(4, "Child", type) >>,
       << << Property("name", 1, TRUE) >> >>,
       << IF v <= 4 THEN <<4, 3>> ELSE <<4, 2>> >>)

\* Types with more to merge.  A child without facets of its own and two
\* parents, `type: [A, B]`: objects (1), arrays of arrays (2).  A union of
\* string[] with minItems 5 and string[] with minItems 3 that inherits from
\* a union of string[] with minItems 3 (3).  Parent: {tags: string[] with
\* minItems 3, name: string}; Child: {tags: array, extra: integer} (4).
\* Parent: {name: string}; Child: {name: integer} (5).
InheritanceDocument(v) ==
  CASE v = 1 ->
    Document(
      << Scalar(1, TypeString), Scalar(2, TypeInteger),
         [BaseShape(3, "A", TypeObject) EXCEPT !.Properties = 1],
         [BaseShape(4, "B", TypeObject) EXCEPT !.Properties = 2],
         BaseShape(5, "Child", TypeObject) >>,
      << << Property("name", 1, TRUE) >>, << Property("age", 2, TRUE) >> >>,
      << <<5, 3>>, <<5, 4>> >>)
    [] v = 2 ->
    Document(
      << Scalar(1, TypeString),
         [BaseShape(2, "", TypeArray) EXCEPT !.Items = 1],
         [BaseShape(3, "A", TypeArray) EXCEPT !.Items = 2],
         [BaseShape(4, "", TypeArray) EXCEPT !.Items = 1, !.MinItems = Ptr(3)],
         [BaseShape(5, "B", TypeArray) EXCEPT !.Items = 4],
         BaseShape(6, "Child", TypeArray) >>,
      << >>,
      << <<6, 3>>, <<6, 5>> >>)
    [] v = 3 ->
    Document(
      << Scalar(1, TypeString),
         [BaseShape(2, "", TypeArray) EXCEPT !.Items = 1, !.MinItems = Ptr(3)],
         [BaseShape(3, "", TypeArray) EXCEPT !.Items = 1, !.MinItems = Ptr(5)],
         [BaseShape(4, "Lists", TypeUnion) EXCEPT !.AnyOf = <<3, 2>>],
         [BaseShape(5, "", TypeArray) EXCEPT !.Items = 1, !.MinItems = Ptr(3)],
         [BaseShape(6, "Parent", TypeUnion) EXCEPT !.AnyOf = <<5>>] >>,
      << >>,
      << <<4, 6>> >>)
    [] v = 4 ->
    Document(
      << Scalar(1, TypeString),
         [BaseShape(2, "", TypeArray) EXCEPT !.Items = 1, !.MinItems = Ptr(3)],
         [BaseShape(3, "Parent", TypeObject) EXCEPT !.Properties = 1],
         BaseShape(4, "", TypeArray),
         [BaseShape(5, "Child", TypeObject) EXCEPT !.Properties = 2],
         Scalar(6, TypeInteger) >>,
      << << Property("tags", 2, TRUE), Property("name", 1, TRUE) >>,
         << Property("tags", 4, TRUE), Property("extra", 6, FALSE) >> >>,
      << <<5, 3>> >>)
    [] OTHER ->
    Document(
      << Scalar(1, TypeString), Scalar(2, TypeInteger),
         [BaseShape(3, "Parent", TypeObject) EXCEPT !.Properties = 1],
         [BaseShape(4, "Child", TypeObject) EXCEPT !.Properties = 2] >>,
      << << Property("name", 1, TRUE) >>, << Property("name", 2, TRUE) >> >>,
      << <<4, 3>> >>)

\* JSON shapes with and without a schema.
JSONDocument(craw, praw) ==
  Document(
    << [BaseShape(1, "Parent", TypeJSON) EXCEPT !.Raw = praw, !.Schema = praw],
       [BaseShape(2, "Child", TypeJSON) EXCEPT !.Raw = craw, !.Schema = craw],
       BaseShape(3, "Unknown", TypeUnknown) >>,
    << >>,
    << <<2, 1>>, <<3, 1>> >>)

\* The documents loaded: every combination of the bounds of parent and
\* child, of uniqueItems and items, of additionalProperties and properties,
\* the discriminators, the unions with the edge folded, the cyclic types.
Documents ==
  {ArrayDocument(cmin, Nil, pmin, Nil) : cmin \in BoundFacets, pmin \in BoundFacets}
  \cup {ArrayDocument(Nil, cmax, Nil, pmax) : cmax \in BoundFacets, pmax \in BoundFacets}
  \cup {ArrayDocument(Ptr(3), Ptr(5), Ptr(3), Ptr(5)), ArrayDocument(Ptr(5), Ptr(3), Nil, Nil),
        ArrayDocument(Nil, Ptr(3), Ptr(3), Ptr(5)), ArrayDocument(Ptr(3), Ptr(5), Ptr(5), Ptr(3))}
  \cup {UniqueDocument(cu, pu, NoShape, 1) : cu \in BoolFacets, pu \in BoolFacets}
  \cup {UniqueDocument(Nil, Nil, citems, pitems) :
          citems \in {NoShape, 5, 2}, pitems \in {NoShape, 1}}
  \cup {UniqueDocument(Ptr(TRUE), Nil, NoShape, NoShape)}
  \cup {ObjectDocument(ca, pa, cv) : ca \in BoolFacets, pa \in BoolFacets, cv \in {1, 2, 4}}
  \cup {ObjectDocument(Nil, Nil, 3)}
  \cup {PropertyBoundsDocument(cmin, Nil, pmin, Nil) :
          cmin \in {Nil, Ptr(1), Ptr(2)}, pmin \in {Nil, Ptr(1), Ptr(2)}}
  \cup {PropertyBoundsDocument(Nil, cmax, Nil, pmax) :
          cmax \in {Nil, Ptr(1), Ptr(2)}, pmax \in {Nil, Ptr(1), Ptr(2)}}
  \cup {PatternDocument(pa) : pa \in BoolFacets}
  \cup {DiscriminatorDocument(kind, dv) :
          kind \in 1..6, dv \in {Nil, Ptr(VStr("Cat")), Ptr(VInt(3))}}
  \cup {UnionDocument(edge) : edge \in {<<8, 7>>, <<9, 7>>, <<7, 9>>, <<6, 6>>, <<7, 1>>}}
  \cup {RecursiveDocument(v) : v \in 1..4}
  \cup {RecursiveSourceDocument(v) : v \in 1..8}
  \cup {JSONDocument(craw, praw) : craw \in {"", "{}", "[]"}, praw \in {"", "{}"}}
  \cup {InheritanceDocument(v) : v \in 1..5}

\* The documents whose shapes are also made to inherit from their own clone.
SelfSources ==
  {ArrayDocument(Ptr(3), Ptr(5), Ptr(3), Ptr(5)), UniqueDocument(Ptr(TRUE), Ptr(TRUE), NoShape, 1),
   ObjectDocument(Ptr(FALSE), Nil, 2), PatternDocument(Nil), UnionDocument(<<8, 7>>),
   JSONDocument("{}", "")}
  \cup {RecursiveDocument(v) : v \in 1..4}

(***************************************************************************)
(* The runtime values handed to validate.                                  *)
(***************************************************************************)
Strings(n) == VList([j \in 1..n |-> VStr(<<"a", "b", "c", "d", "e", "f">>[j])])

Values ==
  { VNull, VInt(3), VStr("A"), VStr("Cat"),
    Strings(0), Strings(2), Strings(3), Strings(4), Strings(5), Strings(6),
    VList(<<VStr("a"), VStr("a"), VStr("b")>>),
    VList(<<VInt(1), VInt(2), VInt(3)>>),
    VList(<<Strings(0), Strings(0)>>),
    VMap(<<>>),
    VMap("name" :> VStr("A")),
    VMap("age" :> VInt(3)),
    VMap("name" :> VInt(3)),
    VMap(("name" :> VStr("A")) @@ ("extra" :> VInt(1))),
    VMap(("name" :> VStr("A")) @@ ("extra" :> VStr("s"))),
    VMap(("name" :> VStr("A")) @@ ("age" :> VStr("s"))),
    VMap(("name" :> VStr("A")) @@ ("kind" :> VInt(1))),
    VMap("next" :> VNull),
    VMap("next" :> VMap("next" :> VMap("next" :> VNull))),
    VMap("next" :> VMap(<<>>)) }

\* The same documents with, instead of their edges, the edge <<p, NoShape>>:
\* the array, object, union or JSON shape p is to inherit from a detached
\* clone of itself.
SelfDocuments ==
  {[d EXCEPT !.pending = << <<p, NoShape>> >>] :
     <<d, p>> \in {<<d, p>> \in SelfSources \X (1..9) :
                    /\ p <= Len(d.S)
                    /\ d.S[p].Type \in {TypeArray, TypeObject, TypeUnion, TypeJSON}}}

AllDocuments == Documents \cup SelfDocuments

(***************************************************************************)
(* validate, step by step: what one caller's goroutine does between two    *)
(* reads of the heap.  A caller holds the stack of its open validate       *)
(* calls; a frame holds the locals of the call: the position in the body   *)
(* (pc), the loop index (ii), the keys of the map still to visit and the   *)
(* key under the loop, and the uniqueItems map of ArrayShape.validate.     *)
(* ret is the error (or "ok" for nil) the call just ended has returned,    *)
(* res the result of the outermost call.  The stack of a goroutine is      *)
(* finite: a call MaxDepth deep cannot call further and the process ends.  *)
(***************************************************************************)
MaxDepth == 12

Frame(p, v) ==
  [p |-> p, v |-> v, pc |-> "call", ii |-> 1, keys |-> {}, key |-> "", uniqueItems |-> {}]

Caller(p, v, stack) == [p |-> p, v |-> v, stack |-> stack, ret |-> "", res |-> ""]
NoCall == Caller(NoShape, VNull, <<>>)

Top(c) == c.stack[Len(c.stack)]
SetTop(c, f) == [c EXCEPT !.stack[Len(c.stack)] = f, !.ret = ""]
Crash(c, r) == [c EXCEPT !.stack = <<>>, !.ret = "", !.res = r]
\* `x.validate(v, ctxPath)` from the top frame, and `return r` from it.
Push(c, f) ==
  IF Len(c.stack) >= MaxDepth THEN Crash(c, Overflow)
  ELSE [c EXCEPT !.stack = Append(@, f), !.ret = ""]
ReturnTo(c, r) ==
  IF Len(c.stack) = 1 THEN [c EXCEPT !.stack = <<>>, !.ret = "", !.res = r]
  ELSE [c EXCEPT !.stack = SubSeq(@, 1, Len(@) - 1), !.ret = r]

\* A uniqueItems that holds the last item only.
uniqueItemsLast(uniqueItems, item) == {item}

\* `uniqueItems[item] = struct{}{}`
uniqueItemsAdd(uniqueItems, item) == uniqueItems \cup {item}

\* The end of one pass of the loop of ArrayShape.validate.
ArrayShape_validateItemDone(c, f, validateUniqueItems) ==
  IF validateUniqueItems /\ Unhashable(f.v.l[f.ii]) THEN Crash(c, Panic)
  ELSE SetTop(c, [f EXCEPT !.pc = "loop", !.ii = @ + 1,
                           !.uniqueItems = IF validateUniqueItems
                                           THEN uniqueItemsAdd(@, f.v.l[f.ii]) ELSE @])

ArrayShape_validateStep(S, M, c) ==
  LET f == Top(c)
      s == S[f.p]
      validateUniqueItems == s.UniqueItems # Nil /\ Deref(s.UniqueItems)
  IN CASE f.pc = "call" ->
            IF f.v.k # "list" THEN {ReturnTo(c, "invalid type, expected []interface{}")}
            ELSE IF s.MinItems # Nil /\ Len(f.v.l) < Deref(s.MinItems)
                 THEN {ReturnTo(c, "array must have at least")}
            ELSE IF s.MaxItems # Nil /\ Len(f.v.l) > Deref(s.MaxItems)
                 THEN {ReturnTo(c, "array must have not more than")}
            ELSE {SetTop(c, [f EXCEPT !.pc = "loop"])}
       [] f.pc = "loop" ->
            IF f.ii > Len(f.v.l)
            THEN {ReturnTo(c, IF validateUniqueItems /\ Cardinality(f.uniqueItems) # Len(f.v.l)
                              THEN "array contains duplicate items" ELSE Ok)}
            ELSE IF s.Items # NoShape
                 THEN {Push(SetTop(c, [f EXCEPT !.pc = "item"]), Frame(s.Items, f.v.l[f.ii]))}
                 ELSE {ArrayShape_validateItemDone(c, f, validateUniqueItems)}
       [] OTHER ->
            IF c.ret # Ok THEN {ReturnTo(c, "validate array item")}
            ELSE {ArrayShape_validateItemDone(c, f, validateUniqueItems)}

\* The key of the pass is done: the loop goes on with the other keys.
ObjectShape_validateKeyDone(c, f) ==
  SetTop(c, [f EXCEPT !.pc = "loop", !.keys = @ \ {f.key}])

\* No property and no pattern property took the key.
ObjectShape_validateAdditional(c, f, s) ==
  IF s.AdditionalProperties # Nil /\ ~Deref(s.AdditionalProperties)
  THEN ReturnTo(c, "validate properties")
  ELSE ObjectShape_validateKeyDone(c, f)

\* The pass of the loop of validateProperties for the key f.key begins.
ObjectShape_validateKey(M, c, f, s) ==
  IF s.Properties # NoMap /\ MapHas(M[s.Properties], f.key)
  THEN Push(SetTop(c, [f EXCEPT !.pc = "prop"]),
            Frame(MapGet(M[s.Properties], f.key).Shape, f.v.m[f.key]))
  ELSE IF s.PatternProperties # NoMap
       THEN SetTop(c, [f EXCEPT !.pc = "pattern", !.ii = 1])
       ELSE ObjectShape_validateAdditional(c, f, s)

ObjectShape_validateStep(S, M, c) ==
  LET f == Top(c)
      s == S[f.p]
  IN CASE f.pc = "call" ->
            IF f.v.k # "map" THEN {ReturnTo(c, "invalid type, expected map[string]interface{}")}
            ELSE {SetTop(c, [f EXCEPT !.pc = "loop", !.keys = DOMAIN f.v.m])}
       [] f.pc = "loop" ->
            IF f.keys = {}
            THEN {ReturnTo(c,
                    IF s.MinProperties # Nil /\ Cardinality(DOMAIN f.v.m) < Deref(s.MinProperties)
                    THEN "object must have at least"
                    ELSE IF s.MaxProperties # Nil
                            /\ Cardinality(DOMAIN f.v.m) > Deref(s.MaxProperties)
                         THEN "object must have not more than"
                         ELSE Ok)}
            ELSE {ObjectShape_validateKey(M, c, [f EXCEPT !.key = key], s) : key \in f.keys}
       [] f.pc = "prop" ->
            IF c.ret # Ok THEN {ReturnTo(c, "validate properties")}
            ELSE {ObjectShape_validateKeyDone(c, f)}
       [] f.pc = "pattern" ->
            IF f.ii > Len(M[s.PatternProperties])
            THEN {ObjectShape_validateAdditional(c, f, s)}
            ELSE IF MatchString(M[s.PatternProperties][f.ii].Pattern, f.key)
                 THEN {Push(SetTop(c, [f EXCEPT !.pc = "matched"]),
                            Frame(M[s.PatternProperties][f.ii].Shape, f.v.m[f.key]))}
                 ELSE {SetTop(c, [f EXCEPT !.ii = @ + 1])}
       [] OTHER ->
            IF c.ret = Ok THEN {ObjectShape_validateKeyDone(c, f)}
            ELSE {SetTop(c, [f EXCEPT !.pc = "pattern", !.ii = @ + 1])}

UnionShape_validateStep(S, M, c) ==
  LET f == Top(c)
      s == S[f.p]
  IN CASE f.pc = "call" ->
            IF f.ii > Len(s.AnyOf) THEN {ReturnTo(c, "value does not match any type")}
            ELSE {Push(SetTop(c, [f EXCEPT !.pc = "member"]), Frame(s.AnyOf[f.ii], f.v))}
       [] OTHER ->
            IF c.ret = Ok THEN {ReturnTo(c, Ok)}
            ELSE {SetTop(c, [f EXCEPT !.pc = "call", !.ii = @ + 1])}

RecursiveShape_validateStep(S, M, c) ==
  LET f == Top(c)
      s == S[f.p]
  IN CASE f.pc = "call" -> {Push(SetTop(c, [f EXCEPT !.pc = "head"]), Frame(s.Head, f.v))}
       [] OTHER -> {ReturnTo(c, IF c.ret = Ok THEN Ok ELSE "validate recursive shape")}

\* JSONShape.validate, UnknownShape.validate and the validate of a scalar
\* shape call no other validate.
PlainShape_validateStep(S, M, c) ==
  {ReturnTo(c, r) : r \in validate(S, M, Top(c).p, Top(c).v, {})}

\* The next step of the caller c: the dispatch on the variant of the top frame.
validateStep(S, M, c) ==
  CASE S[Top(c).p].Type = TypeArray -> ArrayShape_validateStep(S, M, c)
    [] S[Top(c).p].Type = TypeObject -> ObjectShape_validateStep(S, M, c)
    [] S[Top(c).p].Type = TypeUnion -> UnionShape_validateStep(S, M, c)
    [] S[Top(c).p].Type = TypeRecursive -> RecursiveShape_validateStep(S, M, c)
    [] OTHER -> PlainShape_validateStep(S, M, c)

(***************************************************************************)
(* The state: the heap, the inheritance edges still to fold, the last      *)
(* operation with its arguments, its result and the heap it started from,  *)
(* until the caller has taken the result, and the concurrent callers of    *)
(* validate.                                                               *)
(***************************************************************************)
VARIABLES shapes, maps, pending, last, callers

vars == <<shapes, maps, pending, last, callers>>

Callers == {1, 2}

Called(op, t, src, v, res, H) ==
  [op |-> op, t |-> t, src |-> src, v |-> v, res |-> res, S |-> H.S, M |-> H.M]

Idle == Called("none", NoShape, NoShape, VNull, Ok, Heap(<<>>, <<>>))

\* A shape whose inheritance is still to be folded is not yet resolved.
Resolved(p) == \A j \in 1..Len(pending) : pending[j][1] # p

Init ==
  \E d \in AllDocuments :
    /\ shapes = d.S
    /\ maps = d.M
    /\ pending = d.pending
    /\ last = Idle
    /\ callers = [c \in Callers |-> NoCall]

Result(r) == IF r.ok THEN Ok ELSE r.err

\* The heap and the result an inherit call leaves.
Inherited(op, t, src, r) ==
  /\ shapes' = r.S
  /\ maps' = r.M
  /\ last' = Called(op, t, src, VNull, Result(r), Heap(shapes, maps))

\* The next inheritance edge is folded: child.Inherit(parent).
Inherit ==
  /\ last = Idle
  /\ pending # <<>>
  /\ Head(pending)[2] # NoShape
  /\ Inherited("inherit", Head(pending)[1], Head(pending)[2],
               BaseShape_Inherit(Heap(shapes, maps), Head(pending)[1], Head(pending)[2]))
  /\ pending' = Tail(pending)
  /\ UNCHANGED callers

\* s.Inherit(s.CloneDetached()).
InheritClone ==
  /\ last = Idle
  /\ pending # <<>>
  /\ Head(pending)[2] = NoShape
  /\ LET c == BaseShape_CloneDetached(Heap(shapes, maps), Head(pending)[1])
     IN Inherited("inheritClone", Head(pending)[1], c.p,
                  BaseShape_Inherit(c, Head(pending)[1], c.p))
  /\ pending' = Tail(pending)
  /\ UNCHANGED callers

\* shape.Validate(v), with one of the outcomes it can have.
Validate(p, v) ==
  /\ last = Idle
  /\ Resolved(p)
  /\ \E res \in BaseShape_Validate(shapes, maps, p, v) :
       last' = Called("validate", p, NoShape, v, res, Heap(shapes, maps))
  /\ UNCHANGED <<shapes, maps, pending, callers>>

\* shape.Check(), with one of the outcomes it can have.
Check(p) ==
  /\ last = Idle
  /\ Resolved(p)
  /\ \E res \in BaseShape_Check(shapes, maps, p) :
       last' = Called("check", p, NoShape, VNull, res, Heap(shapes, maps))
  /\ UNCHANGED <<shapes, maps, pending, callers>>

\* The caller takes the result; an operation that ended the process has none.
Return ==
  /\ last # Idle
  /\ last.res \notin Abort
  /\ last' = Idle
  /\ UNCHANGED <<shapes, maps, pending, callers>>

Next ==
  \/ Inherit
  \/ InheritClone
  \/ \E p \in 1..Len(shapes), v \in Values : Validate(p, v)
  \/ \E p \in 1..Len(shapes) : Check(p)
  \/ Return

Spec == Init /\ [][Next]_vars

(***************************************************************************)
(* Concurrent validation: the graph is loaded and the callers validate     *)
(* values against its resolved shapes, each at its own pace.               *)
(***************************************************************************)
ConcurrentDocuments ==
  {RecursiveDocument(1), RecursiveDocument(3), PatternDocument(Nil),
   UniqueDocument(Ptr(TRUE), Ptr(TRUE), NoShape, 1), ObjectDocument(Nil, Ptr(FALSE), 1),
   ArrayDocument(Nil, Nil, Ptr(3), Nil), JSONDocument("", "{}")}

ConcurrentValues ==
  { VStr("A"), Strings(2), Strings(3),
    VList(<<VStr("a"), VStr("a"), VStr("b")>>),
    VList(<<Strings(0), Strings(0)>>),
    VMap("age" :> VInt(3)),
    VMap("name" :> VInt(3)),
    VMap(("name" :> VStr("A")) @@ ("extra" :> VInt(1))),
    VMap(("name" :> VStr("A")) @@ ("kind" :> VInt(1))),
    VMap("next" :> VMap("next" :> VMap("next" :> VNull))) }

ConcurrentInit ==
  \E d \in ConcurrentDocuments :
    /\ shapes = d.S
    /\ maps = d.M
    /\ pending = d.pending
    /\ last = Called("load", NoShape, NoShape, VNull, Ok, Heap(d.S, d.M))
    /\ callers = [c \in Callers |-> NoCall]

\* No caller has ended the process.
Running == \A c \in Callers : callers[c].res \notin Abort

\* The caller c calls shape.Validate(v).
Call(c, p, v) ==
  /\ Running
  /\ callers[c].stack = <<>>
  /\ Resolved(p)
  /\ shapes[p].Type \notin ScalarTypes
  /\ callers' = [callers EXCEPT ![c] = Caller(p, v, <<Frame(p, v)>>)]
  /\ UNCHANGED <<shapes, maps, pending, last>>

\* The caller c takes the next step of its call.
Step(c) ==
  /\ Running
  /\ callers[c].stack # <<>>
  /\ \E n \in validateStep(shapes, maps, callers[c]) :
       callers' = [callers EXCEPT ![c] = n]
  /\ UNCHANGED <<shapes, maps, pending, last>>

ConcurrentNext ==
  \E c \in Callers :
    \/ \E p \in 1..Len(shapes), v \in ConcurrentValues : Call(c, p, v)
    \/ Step(c)

ConcurrentSpec == ConcurrentInit /\ [][ConcurrentNext]_vars

(***************************************************************************)
(* Parsing: the properties node of an object type is read, one property    *)
(* node of any name and body.                                              *)
(***************************************************************************)
ParseInit ==
  \E inherits \in {<< >>, <<2>>, <<3>>, <<2, 3>>, <<4, 2>>} :
    /\ shapes = << BaseShape(1, "Type", TypeObject),
                   BaseShape(2, "A", TypeString),
                   BaseShape(3, "B", TypeArray),
                   BaseShape(4, "C", TypeInteger),
                   [BaseShape(5, "", TypeUnknown) EXCEPT !.Inherits = inherits] >>
    /\ maps = << >>
    /\ pending = << >>
    /\ last = Idle
    /\ callers = [c \in Callers |-> NoCall]

\* s.unmarshalProperty(nodeName, data) for the object under construction.
UnmarshalProperty(nodeName, v) ==
  /\ last = Idle
  /\ LET r == ObjectShape_unmarshalProperty(Heap(shapes, maps), 1, nodeName, v)
     IN /\ shapes' = r.S
        /\ maps' = r.M
        /\ last' = Called("unmarshalProperty", 1, NoShape,
                          [k |-> "node", name |-> nodeName, required |-> v.required],
                          Result(r), Heap(shapes, maps))
  /\ UNCHANGED <<pending, callers>>

\* visitor.VisitReference(ctx, target): the text of ctx is a name or a
\* name of a library and a name; the fragment has the types A and B and
\* uses the library lib with the type C.
VisitReference(parts, target) ==
  /\ last = Idle
  /\ shapes[target].Type = TypeUnknown
  /\ LET frag == Library(("A" :> 2) @@ ("B" :> 3), "lib" :> Library("C" :> 4, << >>))
         r == RdtVisitor_VisitReference(Heap(shapes, maps), frag, parts, target)
     IN /\ shapes' = r.S
        /\ maps' = r.M
        /\ last' = Called("visitReference", target, NoShape,
                          [k |-> "reference", parts |-> parts], Result(r),
                          Heap(shapes, maps))
  /\ UNCHANGED <<pending, callers>>

ParseNext ==
  \/ \E nodeName \in NodeNames, required \in BoolFacets :
       UnmarshalProperty(nodeName, [type |-> TypeString, required |-> required])
  \/ \E parts \in UNION {[1..n -> {"A", "B", "C", "lib"}] : n \in 1..2},
        target \in 1..Len(shapes) :
       VisitReference(parts, target)

ParseSpec == ParseInit /\ [][ParseNext]_vars

(***************************************************************************)
(* The properties.                                                         *)
(***************************************************************************)
\* validate accepts the value (returns nil); validate rejects it (returns an
\* error).
Accepts(S, M, p, v) == BaseShape_Validate(S, M, p, v) = {Ok}
Rejects(S, M, p, v) == \A r \in BaseShape_Validate(S, M, p, v) : IsErr(r)

\* C1. Inherit monotonicity: when child.inherit(parent) has succeeded, for
\* two array shapes or two object shapes, every value that validate accepts
\* against the merged child it also accepts against the parent.
C1_InheritMonotonicity ==
  (/\ last.op = "inherit"
   /\ last.res = Ok
   /\ shapes[last.t].Type \in {TypeArray, TypeObject}
   /\ shapes[last.src].Type = shapes[last.t].Type)
  => \A v \in Values :
       Accepts(shapes, maps, last.t, v) => Accepts(shapes, maps, last.src, v)

\* C2. Union acceptance: UnionShape.validate(v) succeeds if and only if at
\* least one member of AnyOf accepts v, and when none does it fails with the
\* error "value does not match any type" alone.
C2_UnionAcceptance ==
  (last.op = "validate" /\ shapes[last.t].Type = TypeUnion)
  => last.res = IF \E n \in 1..Len(shapes[last.t].AnyOf) :
                     Accepts(shapes, maps, shapes[last.t].AnyOf[n], last.v)
                THEN Ok ELSE "value does not match any type"

\* C3. A child array with minItems 5 inherits from a parent array with
\* minItems 3 with success, keeps its minItems, and then accepts an array of
\* 5 items and rejects an array of 4 items.
C3_ChildMinItemsAboveParent ==
  (/\ last.op = "inherit"
   /\ last.S[last.t].Type = TypeArray
   /\ last.S[last.src].Type = TypeArray
   /\ last.S[last.t].MinItems = Ptr(5)
   /\ last.S[last.src].MinItems = Ptr(3))
  => /\ last.res = Ok
     /\ shapes[last.t].MinItems = Ptr(5)
     /\ Accepts(shapes, maps, last.t, Strings(5))
     /\ Rejects(shapes, maps, last.t, Strings(4))

\* C4. ObjectShape.validate rejects every map that lacks the key of a
\* required property, and accepts a map that has every required property,
\* only keys of properties, and a valid value under each (the shape having
\* no bound on the number of properties).
C4_RequiredProperties ==
  (/\ last.op = "validate"
   /\ shapes[last.t].Type = TypeObject
   /\ shapes[last.t].Properties # NoMap
   /\ last.v.k = "map")
  => LET props == maps[shapes[last.t].Properties]
         missing == \E j \in 1..Len(props) :
                      props[j].Required /\ props[j].Name \notin DOMAIN last.v.m
         valid == \A key \in DOMAIN last.v.m :
                    /\ MapHas(props, key)
                    /\ Accepts(shapes, maps, MapGet(props, key).Shape, last.v.m[key])
         unbounded == shapes[last.t].MinProperties = Nil /\ shapes[last.t].MaxProperties = Nil
     IN /\ missing => last.res # Ok
        /\ (~missing /\ valid /\ unbounded) => last.res = Ok

\* C5. In ObjectShape.validate a key that is a property of the shape is
\* validated against the shape of that property only, never against the
\* pattern properties: the key passes if and only if that shape accepts its
\* value.  A key that is no property and matches no pattern passes if and
\* only if AdditionalProperties is unset or true.  A key that does not pass
\* makes the validation fail.
C5_PropertyPrecedence ==
  (/\ last.op = "validate"
   /\ shapes[last.t].Type = TypeObject
   /\ last.v.k = "map")
  => \A key \in DOMAIN last.v.m :
       LET s == shapes[last.t]
           item == last.v.m[key]
           explicit == s.Properties # NoMap /\ MapHas(maps[s.Properties], key)
           matched == /\ s.PatternProperties # NoMap
                      /\ \E j \in 1..Len(maps[s.PatternProperties]) :
                           MatchString(maps[s.PatternProperties][j].Pattern, key)
           passes == ObjectShape_validateProperty(shapes, maps, s, key, item, {}) = {Ok}
       IN /\ explicit =>
               (passes <=> Accepts(shapes, maps, MapGet(maps[s.Properties], key).Shape, item))
          /\ (~explicit /\ ~matched) =>
               (passes <=> s.AdditionalProperties \in {Nil, Ptr(TRUE)})
          /\ ~passes => last.res # Ok

\* C5, its case: a map validated against an object whose property `name`
\* (a string) also matches the pattern /a/ (an integer), with an integer
\* under name: the pattern would accept it, the property does not.
C5_ExplicitKeyMatchesPattern ==
  /\ last.op = "validate"
  /\ shapes[last.t].Type = TypeObject
  /\ shapes[last.t].Properties # NoMap
  /\ shapes[last.t].PatternProperties # NoMap
  /\ last.v = VMap("name" :> VInt(3))
  /\ MatchString(maps[shapes[last.t].PatternProperties][1].Pattern, "name")
  /\ Accepts(shapes, maps, maps[shapes[last.t].PatternProperties][1].Shape, VInt(3))
  /\ last.res = "validate properties"

\* C6. validate terminates on every value, for every shape graph with
\* recursive shapes, the graphs included in which a recursive shape is
\* reached from its Head through union members alone.
C6_ValidateTerminates == last.op = "validate" => last.res # Overflow

\* C7. validate never writes to the shape graph, and a validate call that
\* runs interleaved with the calls of a concurrent caller on the same graph
\* returns a result it can return when it runs alone.
C7_ValidateReentrant ==
  /\ shapes = last.S
  /\ maps = last.M
  /\ \A c \in Callers :
       (callers[c].p # NoShape /\ callers[c].stack = <<>>)
       => callers[c].res \in BaseShape_Validate(last.S, last.M, callers[c].p, callers[c].v)

\* C7, its case: one caller has found the duplicate in its array while the
\* other is in the loop over the items of its own array, against the same
\* shape, its uniqueItems half filled.
C7_Interleaved ==
  /\ callers[1].p # NoShape
  /\ callers[1].stack = <<>>
  /\ callers[1].res = "array contains duplicate items"
  /\ callers[2].p = callers[1].p
  /\ callers[2].v # callers[1].v
  /\ Len(callers[2].stack) = 1
  /\ Cardinality(Top(callers[2]).uniqueItems) = 2

\* The facets of a shape a user of the shape can observe: the bounds, the
\* keys and the required flags of the properties, the types of the members.
Observable(S, M, p) ==
  [MinItems |-> S[p].MinItems, MaxItems |-> S[p].MaxItems, UniqueItems |-> S[p].UniqueItems,
   MinProperties |-> S[p].MinProperties, MaxProperties |-> S[p].MaxProperties,
   Properties |-> IF S[p].Properties = NoMap THEN <<>>
                  ELSE [j \in 1..Len(M[S[p].Properties]) |->
                          <<M[S[p].Properties][j].Name, M[S[p].Properties][j].Required>>],
   AnyOf |-> [n \in 1..Len(S[p].AnyOf) |-> S[S[p].AnyOf[n]].Type]]

\* C8. Inherit idempotence: for an array, object, union or JSON shape s,
\* s.inherit(detached clone of s) succeeds and leaves the observable facets
\* of s as they were.
C8_InheritIdempotence ==
  last.op = "inheritClone"
  => /\ last.res = Ok
     /\ Observable(shapes, maps, last.t) = Observable(last.S, last.M, last.t)

\* C9. For an array, object, union or JSON target, inherit from a recursive
\* shape whose Head is of the target's variant does what inherit from the
\* Head does: the same result and the same shapes.
C9_RecursiveSourceUnwrapped ==
  (/\ last.op = "inherit"
   /\ last.S[last.src].Type = TypeRecursive
   /\ last.S[last.t].Type \in {TypeArray, TypeObject, TypeUnion, TypeJSON}
   /\ last.S[last.S[last.src].Head].Type = last.S[last.t].Type)
  => LET r == inherit(Heap(last.S, last.M), last.t, last.S[last.src].Head)
     IN /\ last.res = Result(r)
        /\ shapes = r.S
        /\ maps = r.M

\* C10. ObjectShape.check of a shape with a Discriminator succeeds only if
\* the property of that name exists, the shape of the property is scalar,
\* and the DiscriminatorValue (the Name of the shape when unset) validates
\* against the shape of the property.
C10_DiscriminatorChecked ==
  (/\ last.op = "check"
   /\ shapes[last.t].Type = TypeObject
   /\ shapes[last.t].Discriminator # Nil
   /\ last.res = Ok)
  => /\ shapes[last.t].Properties # NoMap
     /\ MapHas(maps[shapes[last.t].Properties], Deref(shapes[last.t].Discriminator))
     /\ LET prop == MapGet(maps[shapes[last.t].Properties], Deref(shapes[last.t].Discriminator))
            discriminatorValue == IF shapes[last.t].DiscriminatorValue = Nil
                                  THEN VStr(shapes[last.t].Name)
                                  ELSE Deref(shapes[last.t].DiscriminatorValue)
        IN /\ BaseShape_IsScalar(shapes, prop.Shape)
           /\ Accepts(shapes, maps, prop.Shape, discriminatorValue)

\* The shapes a shape reaches through Items, Properties, PatternProperties
\* and AnyOf.
SubShapes(S, M, p) ==
  (IF S[p].Items = NoShape THEN {} ELSE {S[p].Items})
  \cup (IF S[p].Properties = NoMap THEN {}
        ELSE {M[S[p].Properties][j].Shape : j \in 1..Len(M[S[p].Properties])})
  \cup (IF S[p].PatternProperties = NoMap THEN {}
        ELSE {M[S[p].PatternProperties][j].Shape : j \in 1..Len(M[S[p].PatternProperties])})
  \cup {S[p].AnyOf[n] : n \in 1..Len(S[p].AnyOf)}

\* The min/max facet pairs of the shape satisfy min <= max.
BoundsHold(s) ==
  /\ (s.MinItems # Nil /\ s.MaxItems # Nil) => Deref(s.MinItems) <= Deref(s.MaxItems)
  /\ (s.MinProperties # Nil /\ s.MaxProperties # Nil)
       => Deref(s.MinProperties) <= Deref(s.MaxProperties)

\* check was called on an array, object or union whose sub-shapes all pass
\* check and whose own bounds hold.
CheckedComposite ==
  /\ last.op = "check"
  /\ shapes[last.t].Type \in {TypeArray, TypeObject, TypeUnion}
  /\ \A q \in SubShapes(shapes, maps, last.t) : BaseShape_Check(shapes, maps, q) = {Ok}
  /\ BoundsHold(shapes[last.t])

\* C11, as claimed. Check compositionality: for every array, object or union
\* shape, if every sub-shape reached through Items, Properties,
\* PatternProperties and AnyOf passes check and the min/max pairs of the
\* root satisfy min <= max, then check on the root succeeds.
C11_CheckCompositional == CheckedComposite => last.res = Ok

\* C11, amended. Check compositionality: if moreover the root does not have
\* PatternProperties together with AdditionalProperties false, and declares
\* no Discriminator, then check on the root succeeds.
C11_CheckCompositionalOwnChecks ==
  (/\ CheckedComposite
   /\ ~(shapes[last.t].PatternProperties # NoMap
        /\ shapes[last.t].AdditionalProperties = Ptr(FALSE))
   /\ shapes[last.t].Discriminator = Nil)
  => last.res = Ok

\* C11, its case: check of an object with properties and pattern
\* properties, every one of which passes check, has succeeded.
C11_ObjectWithPatternsChecked ==
  /\ CheckedComposite
  /\ shapes[last.t].Type = TypeObject
  /\ shapes[last.t].Properties # NoMap
  /\ shapes[last.t].PatternProperties # NoMap
  /\ shapes[last.t].AdditionalProperties # Ptr(FALSE)
  /\ shapes[last.t].Discriminator = Nil
  /\ last.res = Ok

\* C12. UnionShape.inherit with a union source.  A target without members
\* takes the source's AnyOf.  Otherwise the call fails with "failed to find
\* compatible union member" when a source member has no target member of
\* its type, and when it succeeds the new AnyOf is, for each source member
\* in order, the target members of its type, in order, whose detached clone
\* has inherited from it with success: each a new shape with a new ID that
\* carries what that clone has inherited.
C12_UnionInherit ==
  (/\ last.op = "inherit"
   /\ last.S[last.t].Type = TypeUnion
   /\ last.S[last.src].Type = TypeUnion)
  => LET H == Heap(last.S, last.M)
         target == last.S[last.t].AnyOf
         source == last.S[last.src].AnyOf
         Merged(pair) ==
           LET c == BaseShape_CloneDetached(H, target[pair[2]])
           IN BaseShape_Inherit(c, c.p, source[pair[1]])
         Kept(pair) ==
           /\ last.S[source[pair[1]]].Type = last.S[target[pair[2]]].Type
           /\ Merged(pair).ok
         pairs == [k \in 1..(Len(source) * Len(target)) |->
                     <<((k - 1) \div Len(target)) + 1, ((k - 1) % Len(target)) + 1>>]
         kept == SelectSeq(pairs, Kept)
         AnyOf == shapes[last.t].AnyOf
     IN IF Len(target) = 0
        THEN last.res = Ok /\ AnyOf = source
        ELSE /\ (\E i \in 1..Len(source) : \A n \in 1..Len(target) :
                   last.S[source[i]].Type # last.S[target[n]].Type)
                => last.res = "failed to find compatible union member"
             /\ last.res = Ok =>
                  /\ Len(AnyOf) = Len(kept)
                  /\ \A k \in 1..Len(AnyOf) :
                       /\ AnyOf[k] > Len(last.S)
                       /\ \A q \in 1..Len(last.S) : shapes[AnyOf[k]].ID # last.S[q].ID
                       /\ \A j \in 1..Len(AnyOf) : j # k => shapes[AnyOf[j]].ID # shapes[AnyOf[k]].ID
                       /\ shapes[AnyOf[k]].Type = last.S[target[kept[k][2]]].Type
                       /\ Observable(shapes, maps, AnyOf[k])
                          = LET r == Merged(kept[k]) IN Observable(r.S, r.M, Len(last.S) + 1)

\* C12, its case: of the two members of the target, arrays as the source's
\* member is, the clone of one has failed to inherit and is dropped.
C12_FailedCloneDropped ==
  /\ last.op = "inherit"
  /\ last.S[last.t].Type = TypeUnion
  /\ last.S[last.src].Type = TypeUnion
  /\ Len(last.S[last.t].AnyOf) = 2
  /\ \A n \in 1..2 : last.S[last.S[last.t].AnyOf[n]].Type = TypeArray
  /\ last.res = Ok
  /\ Len(shapes[last.t].AnyOf) = 1
  /\ shapes[shapes[last.t].AnyOf[1]].MinItems = Ptr(3)

\* C13. Property construction from a node name and a body.  Without an
\* explicit `required`, a name with a trailing `?` gives an optional
\* property named without that `?`, and a name without it a required
\* property of that name.  With an explicit `required`, Required is the
\* explicit value and a name with a trailing `?` stays, `?` included, the
\* name of the property.
C13_PropertyConstruction ==
  (/\ last.op = "unmarshalProperty"
   /\ shapes[last.t].Properties # NoMap)
  => LET nodeName == last.v.name
         n == Len(nodeName)
         optional == n > 0 /\ nodeName[n] = "?"
         properties == maps[shapes[last.t].Properties]
     IN /\ last.res = Ok
        /\ Len(properties) = 1
        /\ IF last.v.required = Nil
           THEN /\ properties[1].Required = ~optional
                /\ properties[1].Name
                   = IF optional THEN [j \in 1..(n - 1) |-> nodeName[j]] ELSE nodeName
           ELSE /\ properties[1].Required = Deref(last.v.required)
                /\ properties[1].Name = nodeName

\* C13, its case: the node `a?` with `required: true` has made the
\* required property `a?`.
C13_ExplicitRequiredKeepsName ==
  /\ last.op = "unmarshalProperty"
  /\ last.v.name = <<"a", "?">>
  /\ last.v.required = Ptr(TRUE)
  /\ last.res = Ok
  /\ maps[shapes[last.t].Properties] = << Property(<<"a", "?">>, Len(last.S) + 1, TRUE) >>

\* A reference has been visited with success: the shape returned, the
\* shape referenced (the type of that name) and the target's Inherits.
VisitedReference == last.op = "visitReference" /\ last.res = Ok

\* C14, as claimed.  Visiting a reference into a target yields a shape of
\* the type of the referenced shape whose Inherits has the referenced shape
\* before every entry that was in the Inherits of the target.
C14_ReferencePrepended ==
  VisitedReference
  => LET ref == CHOOSE q \in 1..Len(last.S) :
                  last.S[q].Name = last.v.parts[Len(last.v.parts)]
     IN /\ shapes[Len(shapes)].Type = last.S[ref].Type
        /\ shapes[Len(shapes)].Inherits = <<ref>> \o last.S[last.t].Inherits

\* C14, amended.  Visiting a reference into a target yields a shape of the
\* type of the referenced shape whose Inherits has the referenced shape
\* after every entry that was in the Inherits of the target.
C14_ReferenceAppended ==
  VisitedReference
  => LET ref == CHOOSE q \in 1..Len(last.S) :
                  last.S[q].Name = last.v.parts[Len(last.v.parts)]
     IN /\ shapes[Len(shapes)].Type = last.S[ref].Type
        /\ shapes[Len(shapes)].Inherits = Append(last.S[last.t].Inherits, ref)

\* C14, its case: the reference lib.C visited into a target that inherits
\* from A already.
C14_ReferenceAfterParent ==
  /\ VisitedReference
  /\ last.v.parts = <<"lib", "C">>
  /\ last.S[last.t].Inherits = <<2>>
  /\ shapes[Len(shapes)].Inherits = <<2, 4>>
  /\ shapes[Len(shapes)].Type = TypeInteger

\* C15. With UniqueItems true, ArrayShape.validate of an array returns a
\* result, also when items are lists or maps, and rejects the array if and
\* only if two of its items are equal: it fails when two are, and it
\* reports duplicate items only when two are.
C15_UniqueItemsStructural ==
  (/\ last.op = "validate"
   /\ shapes[last.t].Type = TypeArray
   /\ shapes[last.t].UniqueItems = Ptr(TRUE)
   /\ last.v.k = "list")
  => LET i == last.v.l
         duplicate == \E j, k \in 1..Len(i) : j # k /\ i[j] = i[k]
     IN /\ last.res \notin Abort
        /\ duplicate => last.res # Ok
        /\ last.res = "array contains duplicate items" => duplicate

\* C16. The bounds under ArrayShape.inherit and ObjectShape.inherit, for
\* minItems, maxItems, minProperties and maxProperties.  With both bounds
\* set, inherit fails with the violation of the constraint exactly when the
\* child's minimum is above the parent's or the child's maximum below the
\* parent's (the minimum is compared first, and the items of an array are
\* merged before its bounds).  When inherit succeeds, a bound the child had
\* not set has the parent's value and a bound it had set is unchanged.
C16_BoundInheritance ==
  (/\ last.op = "inherit"
   /\ last.S[last.t].Type \in {TypeArray, TypeObject}
   /\ last.S[last.src].Type = last.S[last.t].Type)
  => LET array == last.S[last.t].Type = TypeArray
         min == IF array THEN "MinItems" ELSE "MinProperties"
         max == IF array THEN "MaxItems" ELSE "MaxProperties"
         child == last.S[last.t]
         parent == last.S[last.src]
         minViolated == /\ child[min] # Nil /\ parent[min] # Nil
                        /\ Deref(child[min]) > Deref(parent[min])
         maxViolated == /\ child[max] # Nil /\ parent[max] # Nil
                        /\ Deref(child[max]) < Deref(parent[max])
         minError == IF array THEN "minItems constraint violation" ELSE "inherit minProperties"
         maxError == IF array THEN "maxItems constraint violation" ELSE "inherit maxProperties"
     IN /\ minViolated => last.res \in {minError, "merge array items"}
        /\ (maxViolated /\ ~minViolated) => last.res \in {maxError, "merge array items"}
        /\ last.res = minError => minViolated
        /\ last.res = maxError => maxViolated /\ ~minViolated
        /\ last.res = Ok =>
             /\ shapes[last.t][min] = IF child[min] = Nil THEN parent[min] ELSE child[min]
             /\ shapes[last.t][max] = IF child[max] = Nil THEN parent[max] ELSE child[max]

\* C16, its case: a child with maxItems 3 and no minItems has inherited
\* from a parent with minItems 3 and maxItems 5: its maximum is below the
\* parent's, and it has taken the parent's minimum before failing.
C16_MaxBelowParent ==
  /\ last.op = "inherit"
  /\ last.S[last.t].Type = TypeArray
  /\ last.S[last.t].MinItems = Nil
  /\ last.S[last.t].MaxItems = Ptr(3)
  /\ last.S[last.src].MinItems = Ptr(3)
  /\ last.S[last.src].MaxItems = Ptr(5)
  /\ last.res = "maxItems constraint violation"
  /\ shapes[last.t].MinItems = Ptr(3)

\* C17. The properties under ObjectShape.inherit.  A required property of
\* the source that the target has as optional makes inherit fail, with
\* "cannot make required property optional" from inheritProperties when it
\* is the first property of the source the target has.  When inherit
\* succeeds the target has its properties as before, in their order, the
\* shape of each that the source has too having inherited from the shape
\* of the source's, and after them the properties of the source it lacked,
\* in the source's order, each the entry of the source itself.
C17_PropertyInheritance ==
  (/\ last.op = "inherit"
   /\ last.S[last.t].Type = TypeObject
   /\ last.S[last.src].Type = TypeObject)
  => LET H == Heap(last.S, last.M)
         Entries(S, M, p) == IF S[p].Properties = NoMap THEN << >> ELSE M[S[p].Properties]
         target == Entries(last.S, last.M, last.t)
         source == Entries(last.S, last.M, last.src)
         merged == Entries(shapes, maps, last.t)
         Lacked(e) == ~MapHas(target, e.Name)
         Demoted(j) == /\ MapHas(target, source[j].Name)
                       /\ source[j].Required
                       /\ ~MapGet(target, source[j].Name).Required
     IN /\ \A j \in 1..Len(source) :
             Demoted(j) =>
               /\ last.res # Ok
               /\ (\A i \in 1..(j - 1) : Lacked(source[i])) =>
                    ObjectShape_inheritProperties(H, last.t, last.src).err
                      = "cannot make required property optional"
        /\ last.res = Ok =>
             /\ merged = [j \in 1..Len(target) |-> target[j]] \o SelectSeq(source, Lacked)
             /\ \A j \in 1..Len(source) :
                  ~Lacked(source[j]) =>
                    LET shape == MapGet(target, source[j].Name).Shape
                        r == BaseShape_Inherit(H, shape, source[j].Shape)
                    IN /\ r.ok
                       /\ Observable(shapes, maps, shape) = Observable(r.S, r.M, shape)

\* C17, its case: Child {tags: array, extra?: integer} has inherited from
\* Parent {tags: string[] with minItems 3, name: string}: tags has taken
\* the minimum, and name stands after extra.
C17_MergedAndAdded ==
  /\ last.op = "inherit"
  /\ last.res = Ok
  /\ last.S[last.t].Type = TypeObject
  /\ last.S[last.t].Properties # NoMap
  /\ Len(last.M[last.S[last.t].Properties]) = 2
  /\ Len(maps[shapes[last.t].Properties]) = 3
  /\ maps[shapes[last.t].Properties][3].Name = "name"
  /\ last.S[maps[shapes[last.t].Properties][1].Shape].MinItems = Nil
  /\ shapes[maps[shapes[last.t].Properties][1].Shape].MinItems = Ptr(3)

\* The shapes a shape owns or refers to, through Items, Properties,
\* PatternProperties and AnyOf (the Head of a recursive shape is not
\* followed).
RECURSIVE Reach(_, _, _)
Reach(S, M, p) == {p} \cup UNION {Reach(S, M, q) : q \in SubShapes(S, M, p)}

\* C18. inherit never changes the source: after child.inherit(parent),
\* every declared type other than the child, a parent before or now, has
\* its bounds, Items, Properties and PatternProperties as before the call,
\* and so has every shape it reaches through them.
C18_SourceUnchanged ==
  last.op = "inherit"
  => \A q \in 1..Len(last.S) :
       (q # last.t /\ last.S[q].Name # "")
       => \A x \in Reach(last.S, last.M, q) \ {last.t} :
            /\ shapes[x] = last.S[x]
            /\ last.S[x].Properties # NoMap
                 => maps[last.S[x].Properties] = last.M[last.S[x].Properties]
            /\ last.S[x].PatternProperties # NoMap
                 => maps[last.S[x].PatternProperties] = last.M[last.S[x].PatternProperties]

\* C19. A failed UnionShape.inherit leaves the target unchanged: when a call
\* on a union target returns an error, the target (its AnyOf list included)
\* and every shape and property map that was reachable from it before the
\* call are the same as before the call.
C19_FailedUnionInheritUnchanged ==
  (/\ last.op \in {"inherit", "inheritClone"}
   /\ last.S[last.t].Type = TypeUnion
   /\ last.res # Ok)
  => \A x \in Reach(last.S, last.M, last.t) :
       /\ shapes[x] = last.S[x]
       /\ last.S[x].Properties # NoMap
            => maps[last.S[x].Properties] = last.M[last.S[x].Properties]
       /\ last.S[x].PatternProperties # NoMap
            => maps[last.S[x].PatternProperties] = last.M[last.S[x].PatternProperties]

\* A union whose first source member was merged into a clone of a target
\* member before the second source member found no compatible member.
C19_FailedAfterCloneMerged ==
  /\ last.op = "inherit"
  /\ last.S[last.t].Type = TypeUnion
  /\ last.res = "failed to find compatible union member"
  /\ Len(last.S[last.t].AnyOf) > 0
  /\ Len(shapes) > Len(last.S)
  /\ shapes[Len(shapes)].ID # last.S[last.S[last.t].AnyOf[1]].ID

\* The key of the value that is no explicit property of the object shape s.
PatternKey(M, s, key) == ~(s.Properties # NoMap /\ MapHas(M[s.Properties], key))

\* C20. For an object shape that passes check and has PatternProperties, no
\* pattern property makes validate reject a value: no key that is not an
\* explicit property is rejected, whatever the pattern properties it matches
\* say of its value, and an error validate returns is one it also returns
\* for the same shape without its PatternProperties.
C20_PatternsNeverReject ==
  (/\ last.op = "validate"
   /\ last.S[last.t].Type = TypeObject
   /\ last.S[last.t].PatternProperties # NoMap
   /\ BaseShape_Check(last.S, last.M, last.t) = {Ok}
   /\ last.v.k = "map")
  => /\ \A key \in DOMAIN last.v.m :
          PatternKey(last.M, last.S[last.t], key)
          => ~HasErr(ObjectShape_validateProperty(last.S, last.M, last.S[last.t], key,
                                                  last.v.m[key], {<<last.t, last.v>>}))
     /\ IsErr(last.res)
          => last.res \in BaseShape_Validate(
                            [last.S EXCEPT ![last.t].PatternProperties = NoMap],
                            last.M, last.t, last.v)

\* A value accepted although one of its keys matches a pattern property and
\* fails every pattern property it matches.
C20_FailedPatternAccepted ==
  /\ last.op = "validate"
  /\ last.S[last.t].Type = TypeObject
  /\ last.S[last.t].PatternProperties # NoMap
  /\ BaseShape_Check(last.S, last.M, last.t) = {Ok}
  /\ last.v.k = "map"
  /\ last.res = Ok
  /\ \E key \in DOMAIN last.v.m :
       /\ PatternKey(last.M, last.S[last.t], key)
       /\ \E j \in 1..Len(last.M[last.S[last.t].PatternProperties]) :
            MatchString(last.M[last.S[last.t].PatternProperties][j].Pattern, key)
       /\ \A j \in 1..Len(last.M[last.S[last.t].PatternProperties]) :
            MatchString(last.M[last.S[last.t].PatternProperties][j].Pattern, key)
            => Ok \notin validate(last.S, last.M,
                                  last.M[last.S[last.t].PatternProperties][j].Shape,
                                  last.v.m[key], {<<last.t, last.v>>})

====
